---- MODULE Spec2Model ----
(***************************************************************************)
(* GitPrism: the ingestion pipeline of src/engine.  A string of the        *)
(* program is a sequence of one-character strings, so that prefixes,       *)
(* suffixes, segments and pattern compilation are computed character by    *)
(* character as the code computes them.                                    *)
(***************************************************************************)
EXTENDS Integers, Sequences, FiniteSets, TLC

\* ---------------------------------------------------------------- strings

\* String.prototype.startsWith
StartsWith(s, p) == Len(p) <= Len(s) /\ SubSeq(s, 1, Len(p)) = p

\* String.prototype.endsWith
EndsWith(s, p) == Len(p) <= Len(s) /\ SubSeq(s, Len(s) - Len(p) + 1, Len(s)) = p

\* String.prototype.slice(n), n a 0-based offset
SliceFrom(s, n) == SubSeq(s, n + 1, Len(s))

\* String.prototype.indexOf(c) for a single character: 0-based, -1 when absent
IndexOf(s, c) ==
  LET at == { i \in 1..Len(s) : s[i] = c }
  IN IF at = {} THEN -1
     ELSE (CHOOSE i \in at : \A j \in at : i <= j) - 1

\* String.prototype.split(c) for a single character
RECURSIVE Split(_, _)
Split(s, c) ==
  LET i == IndexOf(s, c)
  IN IF i = -1 THEN <<s>>
     ELSE <<SubSeq(s, 1, i)>> \o Split(SliceFrom(s, i + 1), c)

\* String.prototype.trim (the white space of the model is the blank)
RECURSIVE Trim(_)
Trim(s) ==
  IF s = <<>> THEN s
  ELSE IF Head(s) = " " THEN Trim(Tail(s))
  ELSE IF s[Len(s)] = " " THEN Trim(SubSeq(s, 1, Len(s) - 1))
  ELSE s

\* Array.prototype.join(c)
RECURSIVE Join(_, _)
Join(parts, c) ==
  IF parts = <<>> THEN <<>>
  ELSE IF Len(parts) = 1 THEN parts[1]
  ELSE parts[1] \o <<c>> \o Join(Tail(parts), c)

\* ------------------------------------------------- filter.ts: static lists

IGNORED_DIRS ==
  { <<"n", "o", "d", "e", "_", "m", "o", "d", "u", "l", "e", "s">>, <<"v", "e", "n", "d", "o", "r">>, <<".", "g", "i", "t">>, <<"_", "_", "p", "y", "c", "a", "c", "h", "e", "_", "_">>, <<".", "v", "e", "n", "v">>, <<"v", "e", "n", "v">>,
    <<"d", "i", "s", "t">>, <<"b", "u", "i", "l", "d">>, <<".", "n", "e", "x", "t">>, <<".", "n", "u", "x", "t">>, <<".", "s", "v", "e", "l", "t", "e", "-", "k", "i", "t">>, <<".", "o", "u", "t", "p", "u", "t">>,
    <<".", "c", "a", "c", "h", "e">>, <<".", "p", "a", "r", "c", "e", "l", "-", "c", "a", "c", "h", "e">>, <<"c", "o", "v", "e", "r", "a", "g", "e">>, <<".", "t", "o", "x">>, <<".", "m", "y", "p", "y", "_", "c", "a", "c", "h", "e">> }

IGNORED_FILES ==
  { <<"p", "a", "c", "k", "a", "g", "e", "-", "l", "o", "c", "k", ".", "j", "s", "o", "n">>, <<"y", "a", "r", "n", ".", "l", "o", "c", "k">>, <<"p", "n", "p", "m", "-", "l", "o", "c", "k", ".", "y", "a", "m", "l">>, <<"b", "u", "n", ".", "l", "o", "c", "k", "b">>,
    <<"C", "a", "r", "g", "o", ".", "l", "o", "c", "k">>, <<"c", "o", "m", "p", "o", "s", "e", "r", ".", "l", "o", "c", "k">>, <<"G", "e", "m", "f", "i", "l", "e", ".", "l", "o", "c", "k">>, <<"g", "o", ".", "s", "u", "m">>, <<"p", "o", "e", "t", "r", "y", ".", "l", "o", "c", "k">> }

IGNORED_EXTENSIONS ==
  { <<".", "m", "i", "n", ".", "j", "s">>, <<".", "m", "i", "n", ".", "c", "s", "s">>, <<".", "m", "a", "p">>, <<".", "w", "a", "s", "m">>, <<".", "p", "b", ".", "g", "o">>, <<".", "p", "y", "c">>, <<".", "p", "y", "o">> }

BINARY_EXTENSIONS ==
  { <<".", "p", "n", "g">>, <<".", "j", "p", "g">>, <<".", "j", "p", "e", "g">>, <<".", "g", "i", "f">>, <<".", "i", "c", "o">>, <<".", "w", "e", "b", "p">>, <<".", "b", "m", "p">>, <<".", "t", "i", "f", "f">>,
    <<".", "s", "v", "g">>, <<".", "w", "o", "f", "f">>, <<".", "w", "o", "f", "f", "2">>, <<".", "t", "t", "f">>, <<".", "e", "o", "t">>, <<".", "o", "t", "f">>, <<".", "p", "d", "f">>, <<".", "z", "i", "p">>,
    <<".", "t", "a", "r">>, <<".", "g", "z">>, <<".", "b", "z", "2">>, <<".", "7", "z">>, <<".", "r", "a", "r">>, <<".", "e", "x", "e">>, <<".", "d", "l", "l">>, <<".", "s", "o">>,
    <<".", "d", "y", "l", "i", "b">>, <<".", "b", "i", "n">>, <<".", "o">>, <<".", "a">>, <<".", "m", "p", "3">>, <<".", "m", "p", "4">>, <<".", "a", "v", "i">>, <<".", "m", "o", "v">>,
    <<".", "m", "k", "v">>, <<".", "f", "l", "a", "c">>, <<".", "w", "a", "v">>, <<".", "o", "g", "g">>, <<".", "s", "q", "l", "i", "t", "e">>, <<".", "d", "b">>, <<".", "D", "S", "_", "S", "t", "o", "r", "e">> }

\* ------------------------------------------- filter.ts: shouldIgnorePath

\* Lines 110-115: for (const ext of exts) if (fileName.endsWith(ext)) return
\* true. No ext is empty, so the loop returns true exactly when a non-empty
\* suffix of fileName is one of exts.
EndsWithOneOf(fileName, exts) ==
  \E n \in 1..Len(fileName) : SubSeq(fileName, n, Len(fileName)) \in exts

shouldIgnorePath(filePath) ==
  LET parts == Split(filePath, "/")
      fileName == parts[Len(parts)]
  IN \/ \E i \in 1..(Len(parts) - 1) : parts[i] \in IGNORED_DIRS
     \/ (Len(parts) = 1 /\ parts[1] \in IGNORED_DIRS)
     \/ fileName \in IGNORED_FILES
     \/ EndsWithOneOf(fileName, IGNORED_EXTENSIONS)
     \/ EndsWithOneOf(fileName, BINARY_EXTENSIONS)

\* -------------------------------------------- filter.ts: isBinaryContent

\* The window isBinaryContent scans.
BINARY_SNIFF_BYTES == 8192

\* The scan that looks at the whole buffer.
isBinaryContentWholeBuffer(buffer) ==
  buffer.firstZero >= 0 /\ buffer.firstZero < buffer.size

\* A Uint8Array is kept as its length and the offset of its first zero byte
\* (-1: it holds none); the scan returns true exactly when that offset lies
\* below min(length, 8192).
isBinaryContent(buffer) ==
  LET limit == IF buffer.size < BINARY_SNIFF_BYTES THEN buffer.size ELSE BINARY_SNIFF_BYTES
  IN buffer.firstZero >= 0 /\ buffer.firstZero < limit

\* ------------------------------------ filter.ts: gitignorePatternToRegex

\* The pieces of a compiled pattern: a literal character, [^/]* (from '*'),
\* [^/] (from '?') and .* (from '**').
Lit(c) == [k |-> "lit", c |-> c]
Star == [k |-> "star", c |-> ""]
Any1 == [k |-> "any1", c |-> ""]
GlobStar == [k |-> "globstar", c |-> ""]

\* The chain of replace() calls: every regex metacharacter is escaped and so
\* stands for itself; '**' is replaced first, left to right, then the
\* remaining '*', then '?'.
RECURSIVE Tokens(_)
Tokens(p) ==
  IF p = <<>> THEN <<>>
  ELSE IF Len(p) >= 2 /\ p[1] = "*" /\ p[2] = "*" THEN <<GlobStar>> \o Tokens(SliceFrom(p, 2))
  ELSE IF p[1] = "*" THEN <<Star>> \o Tokens(Tail(p))
  ELSE IF p[1] = "?" THEN <<Any1>> \o Tokens(Tail(p))
  ELSE <<Lit(p[1])>> \o Tokens(Tail(p))

\* A compilation that forgets the leading '/' once it is stripped.
gitignorePatternToRegexUnrooted(pattern) ==
  LET isDir == EndsWith(pattern, <<"/">>)
      p1 == IF isDir THEN SubSeq(pattern, 1, Len(pattern) - 1) ELSE pattern
      rooted == StartsWith(p1, <<"/">>)
      p2 == IF rooted THEN SliceFrom(p1, 1) ELSE p1
  IN [anchored |-> FALSE, toks |-> Tokens(p2), tail |-> isDir \/ rooted]

\* A compiled RegExp: anchored is '^' (otherwise '(^|/)'), toks is regexStr,
\* tail is the optional '(/.*)?' before '$'.
gitignorePatternToRegex(pattern) ==
  LET isDir == EndsWith(pattern, <<"/">>)
      p1 == IF isDir THEN SubSeq(pattern, 1, Len(pattern) - 1) ELSE pattern
      rooted == StartsWith(p1, <<"/">>)
      p2 == IF rooted THEN SliceFrom(p1, 1) ELSE p1
      regexStr == Tokens(p2)
  IN IF isDir
     THEN IF rooted
          THEN [anchored |-> TRUE, toks |-> regexStr, tail |-> TRUE]
          ELSE [anchored |-> FALSE, toks |-> regexStr, tail |-> TRUE]
     ELSE IF rooted
          THEN [anchored |-> TRUE, toks |-> regexStr, tail |-> TRUE]
          ELSE [anchored |-> FALSE, toks |-> regexStr, tail |-> FALSE]

\* toks[ti..], then the optional tail, then '$', match s from position si.
RECURSIVE MatchFrom(_, _, _, _, _)
MatchFrom(toks, ti, s, si, tail) ==
  IF ti > Len(toks)
  THEN si = Len(s) + 1 \/ (tail /\ si <= Len(s) /\ s[si] = "/")
  ELSE LET t == toks[ti]
       IN IF t.k = "lit"
          THEN si <= Len(s) /\ s[si] = t.c /\ MatchFrom(toks, ti + 1, s, si + 1, tail)
          ELSE IF t.k = "any1"
          THEN si <= Len(s) /\ s[si] # "/" /\ MatchFrom(toks, ti + 1, s, si + 1, tail)
          ELSE IF t.k = "star"
          THEN \E j \in si..(Len(s) + 1) :
                 /\ \A n \in si..(j - 1) : s[n] # "/"
                 /\ MatchFrom(toks, ti + 1, s, j, tail)
          ELSE \E j \in si..(Len(s) + 1) : MatchFrom(toks, ti + 1, s, j, tail)

\* RegExp.prototype.test: a match may start at the beginning of the path and,
\* for '(^|/)', right after any '/'.
RegexTest(regex, s) ==
  \/ MatchFrom(regex.toks, 1, s, 1, regex.tail)
  \/ /\ ~regex.anchored
     /\ \E i \in 1..Len(s) : s[i] = "/" /\ MatchFrom(regex.toks, 1, s, i + 1, regex.tail)

\* ---------------------------------------------- filter.ts: parseGitignore

\* The rules array built by the loop over content.split("\n").
RECURSIVE ParseLines(_)
ParseLines(rawLines) ==
  IF rawLines = <<>> THEN <<>>
  ELSE LET line == Trim(Head(rawLines))
           negate == StartsWith(line, <<"!">>)
           pattern == IF negate THEN SliceFrom(line, 1) ELSE line
       IN IF line = <<>> \/ StartsWith(line, <<"#">>) \/ pattern = <<>>
          THEN ParseLines(Tail(rawLines))
          ELSE <<[negate |-> negate, regex |-> gitignorePatternToRegex(pattern)]>>
               \o ParseLines(Tail(rawLines))

parseGitignore(content) == ParseLines(Split(content, "\n"))

\* The predicate parseGitignore returns: the loop over the rules from rule i
\* on, with the verdict so far.
RECURSIVE MatcherFrom(_, _, _, _)
MatcherFrom(rules, i, path, ignored) ==
  IF i > Len(rules) THEN ignored
  ELSE MatcherFrom(rules, i + 1, path,
                   IF RegexTest(rules[i].regex, path) THEN ~rules[i].negate ELSE ignored)

\* A matcher in which the first matching rule decides.
RECURSIVE FirstMatchFrom(_, _, _)
FirstMatchFrom(rules, i, path) ==
  IF i > Len(rules) THEN FALSE
  ELSE IF RegexTest(rules[i].regex, path) THEN ~rules[i].negate
  ELSE FirstMatchFrom(rules, i + 1, path)

gitignoreMatcherFirstWins(rules, path) == FirstMatchFrom(rules, 1, path)

gitignoreMatcher(rules, path) == MatcherFrom(rules, 1, path, FALSE)

\* ------------------------------------------- filter.ts: filterBySubpath

\* The scoping that keeps the paths as they were.
filterBySubpathKeepPaths(files, subpath) ==
  IF subpath = <<>> THEN files
  ELSE LET prefix == IF EndsWith(subpath, <<"/">>) THEN subpath ELSE subpath \o <<"/">>
           under(f) == StartsWith(f.path, prefix) \/ f.path = subpath
       IN SelectSeq(files, under)

\* Lines 215-225: the entries under subpath, their paths cut by the prefix.
filterBySubpath(files, subpath) ==
  IF subpath = <<>> THEN files
  ELSE LET prefix == IF EndsWith(subpath, <<"/">>) THEN subpath ELSE subpath \o <<"/">>
           under(f) == StartsWith(f.path, prefix) \/ f.path = subpath
           kept == SelectSeq(files, under)
       IN [ i \in 1..Len(kept) |->
              [kept[i] EXCEPT !.path = IF StartsWith(@, prefix)
                                       THEN SliceFrom(@, Len(prefix)) ELSE @] ]

\* ------------------------------------------------------ bounds and inputs

\* The longest archive, in entries.
MaxEntries == 3
\* The largest maxFileCount option.
MaxFileCount == 2
\* The largest maxOutputBytes option.
MaxOutputBytes == 4
\* The deepest path handed to a filter function, in segments.
MaxDepth == 3
\* The longest .gitignore handed to parseGitignore, in lines.
MaxRules == 2

Min(S) == CHOOSE x \in S : \A y \in S : x <= y
Max(S) == CHOOSE x \in S : \A y \in S : x >= y

\* types.ts DetailLevel
DetailLevels == {"summary", "structure", "file-list", "full"}

\* An archive entry of unzipSync: its key, and its bytes as their length, the
\* offset of the first zero byte (-1: none) and the text they decode to.
TextFile(path, text) == [path |-> path, size |-> Len(text), firstZero |-> -1, text |-> text]
BinaryFile(path, size, firstZero) == [path |-> path, size |-> size, firstZero |-> firstZero, text |-> <<>>]

\* The entries archives are made of: a GitHub zipball with the top-level
\* directory r/, its directory entry, a root .gitignore, text files in and
\* outside src/, a statically ignored path and a file with a zero byte.
EntryPool ==
  { TextFile(<<"r", "/">>, <<>>),
    TextFile(<<"r", "/", ".", "g", "i", "t", "i", "g", "n", "o", "r", "e">>, <<"*", ".", "l", "o", "g", "\n", "!", "*", ".", "j", "s", "\n">>),
    TextFile(<<"r", "/", "a", ".", "t", "s">>, <<"a", "\n">>),
    TextFile(<<"r", "/", "s", "r", "c", "/", "b", ".", "t", "s">>, <<"b", "\n">>),
    TextFile(<<"r", "/", "s", "r", "c", "/", "e", ".", "l", "o", "g">>, <<"e">>),
    TextFile(<<"r", "/", "b", "u", "i", "l", "d", "/", "o", ".", "j", "s">>, <<"o">>),
    BinaryFile(<<"r", "/", "s", "r", "c", "/", "d", ".", "t", "s">>, 3, 1) }

\* Object.entries(unzipped): a sequence of entries with distinct keys.
Archives ==
  { a \in UNION { [1..n -> EntryPool] : n \in 0..MaxEntries } :
      \A i, j \in 1..Len(a) : i # j => a[i].path # a[j].path }

\* DecompressOptions; an absent subpath is the empty string (line 24).
OptionSets ==
  [ subpath : {<<>>, <<"s", "r", "c">>},
    detail : DetailLevels,
    maxOutputBytes : {0, MaxOutputBytes - 1, MaxOutputBytes},
    maxFileCount : 0..MaxFileCount ]

\* ------------------------------------- decompressor.ts: the loop's tests

\* Lines 30-37: the prefix is the first key with a '/', cut after that '/'.
TopLevelPrefix(entries) ==
  LET withSlash == { i \in 1..Len(entries) : IndexOf(entries[i].path, "/") # -1 }
  IN IF withSlash = {} THEN <<>>
     ELSE LET key == entries[Min(withSlash)].path
          IN SubSeq(key, 1, IndexOf(key, "/") + 1)

\* A single pass, which has the rules only when the .gitignore is the first
\* entry it meets.
RootMatcherIfFirst(entries, pfx) ==
  IF entries # <<>> /\ entries[1].path = pfx \o <<".", "g", "i", "t", "i", "g", "n", "o", "r", "e">>
  THEN [present |-> TRUE, rules |-> parseGitignore(entries[1].text)]
  ELSE [present |-> FALSE, rules |-> <<>>]

\* Lines 40-45: the matcher of the entry prefix + ".gitignore", or null.
RootMatcher(entries, pfx) ==
  LET gitignoreKey == pfx \o <<".", "g", "i", "t", "i", "g", "n", "o", "r", "e">>
      at == { i \in 1..Len(entries) : entries[i].path = gitignoreKey }
  IN IF at = {} THEN [present |-> FALSE, rules |-> <<>>]
     ELSE [present |-> TRUE, rules |-> parseGitignore(entries[CHOOSE i \in at : TRUE].text)]

\* Line 58
StripPrefix(zipPath, pfx) ==
  IF StartsWith(zipPath, pfx) THEN SliceFrom(zipPath, Len(pfx)) ELSE zipPath

\* Lines 61 and 64: the entry is a file.
IsFileEntry(filePath) == filePath # <<>> /\ ~EndsWith(filePath, <<"/">>)

\* Line 76
SubpathPrefix(subpath) == IF EndsWith(subpath, <<"/">>) THEN subpath ELSE subpath \o <<"/">>

\* Lines 75-77
InSubpath(filePath, subpath) ==
  subpath = <<>> \/ StartsWith(filePath, SubpathPrefix(subpath))

\* The scoping that leaves the subpath in front of the path.
ScopedPathWhole(filePath, subpath) == filePath

\* Line 78
ScopedPath(filePath, subpath) ==
  IF subpath = <<>> THEN filePath ELSE SliceFrom(filePath, Len(SubpathPrefix(subpath)))

\* The static list consulted as if it were the first rule of the .gitignore.
IgnoredByRulesNegatable(filePath, m) ==
  IF m.present THEN MatcherFrom(m.rules, 1, filePath, shouldIgnorePath(filePath))
  ELSE shouldIgnorePath(filePath)

\* Lines 69 and 72: the hardcoded list, then the .gitignore matcher.
IgnoredByRules(filePath, m) ==
  \/ shouldIgnorePath(filePath)
  \/ (m.present /\ gitignoreMatcher(m.rules, filePath))

\* Lines 69-82: the entry is skipped by a filter.
Filtered(entry, filePath, m, subpath) ==
  \/ IgnoredByRules(filePath, m)
  \/ ~InSubpath(filePath, subpath)
  \/ isBinaryContent(entry)

\* A ceiling test that lets one file too many in.
FileCountExceeded(fs, maxFileCount) == Len(fs) > maxFileCount

\* Line 85
FileCountReached(fs, maxFileCount) == Len(fs) >= maxFileCount

\* A byte test that leaves the entry's own size out.
BytesExceededBefore(detail, total, fileSize, maxOutputBytes) ==
  detail = "full" /\ total > maxOutputBytes

\* A byte ceiling that applies wherever the bytes are decoded.
BytesExceededWhenDecoding(detail, total, fileSize, maxOutputBytes) ==
  detail \in {"full", "file-list"} /\ total + fileSize > maxOutputBytes

\* Line 92
BytesExceeded(detail, total, fileSize, maxOutputBytes) ==
  detail = "full" /\ total + fileSize > maxOutputBytes

\* TextDecoder.decode (decompressor.ts 105): a leading byte order mark is
\* dropped and a byte that is not part of a well-formed UTF-8 sequence, kept
\* as "xFF", becomes the replacement character; every other character of
\* the model is an ASCII byte and decodes to itself.
TextDecode(data) ==
  LET body == IF data # <<>> /\ data[1] = "uFEFF" THEN Tail(data) ELSE data
  IN [ i \in 1..Len(body) |-> IF body[i] = "xFF" THEN "uFFFD" ELSE body[i] ]

\* Line 106: text.split("\n").length
LineCount(text) == Len(Split(text, "\n"))

\* Lines 98-111: the FileEntry; an optional field is a sequence of at most
\* one value.
FileEntry(filePath, entry, detail) ==
  [ path |-> filePath,
    size |-> entry.size,
    lines |-> IF detail \in {"full", "file-list"} THEN <<LineCount(TextDecode(entry.text))>> ELSE <<>>,
    content |-> IF detail = "full" THEN <<TextDecode(entry.text)>> ELSE <<>> ]

\* Lines 117-123: the note, kept as the two numbers it states.
NoMessage == [present |-> FALSE, included |-> 0, total |-> 0]
TruncationMessage(isTruncated, included, total) ==
  IF isTruncated THEN [present |-> TRUE, included |-> included, total |-> total]
  ELSE NoMessage

RECURSIVE SumSizes(_)
SumSizes(fs) == IF fs = <<>> THEN 0 ELSE Head(fs).size + SumSizes(Tail(fs))

\* ------------------------------------------------- formatter.ts: the texts

\* The decimal digits of a natural number, as a template literal prints it.
RECURSIVE Dec(_)
Dec(n) ==
  LET digit(d) == <<"0", "1", "2", "3", "4", "5", "6", "7", "8", "9">>[d + 1]
  IN IF n < 10 THEN <<digit(n)>> ELSE Dec(n \div 10) \o <<digit(n % 10)>>

\* Number.prototype.toFixed(1) of num / den: the nearest tenth, the larger
\* one on a tie.
ToFixed1(num, den) ==
  LET tenths == (20 * num + den) \div (2 * den)
  IN Dec(tenths \div 10) \o <<".">> \o Dec(tenths % 10)

\* String.prototype.toLowerCase on the ASCII letters
ToLowerCase(s) ==
  LET upper == <<"A", "B", "C", "D", "E", "F", "G", "H", "I", "J", "K", "L", "M", "N", "O", "P", "Q", "R", "S", "T", "U", "V", "W", "X", "Y", "Z">>
      lower == <<"a", "b", "c", "d", "e", "f", "g", "h", "i", "j", "k", "l", "m", "n", "o", "p", "q", "r", "s", "t", "u", "v", "w", "x", "y", "z">>
      low(c) == IF \E k \in 1..26 : upper[k] = c
                THEN lower[CHOOSE k \in 1..26 : upper[k] = c] ELSE c
  IN [ i \in 1..Len(s) |-> low(s[i]) ]

\* String.prototype.lastIndexOf(c) for a single character: 0-based, -1 when
\* absent
LastIndexOf(s, c) ==
  LET at == { i \in 1..Len(s) : s[i] = c }
  IN IF at = {} THEN -1
     ELSE (CHOOSE i \in at : \A j \in at : i >= j) - 1

\* The concatenation of the texts of a sequence.
RECURSIVE Concat(_)
Concat(texts) == IF texts = <<>> THEN <<>> ELSE Head(texts) \o Concat(Tail(texts))

\* Lines 5-66: the pairs of an extension and its language.
EXT_TO_LANG ==
  { <<<<"t", "s">>, <<"t", "y", "p", "e", "s", "c", "r", "i", "p", "t">>>>, <<<<"t", "s", "x">>, <<"t", "y", "p", "e", "s", "c", "r", "i", "p", "t">>>>, 
    <<<<"j", "s">>, <<"j", "a", "v", "a", "s", "c", "r", "i", "p", "t">>>>, <<<<"j", "s", "x">>, <<"j", "a", "v", "a", "s", "c", "r", "i", "p", "t">>>>, 
    <<<<"m", "j", "s">>, <<"j", "a", "v", "a", "s", "c", "r", "i", "p", "t">>>>, <<<<"c", "j", "s">>, <<"j", "a", "v", "a", "s", "c", "r", "i", "p", "t">>>>, 
    <<<<"p", "y">>, <<"p", "y", "t", "h", "o", "n">>>>, <<<<"r", "s">>, <<"r", "u", "s", "t">>>>, <<<<"g", "o">>, <<"g", "o">>>>, 
    <<<<"j", "a", "v", "a">>, <<"j", "a", "v", "a">>>>, <<<<"k", "t">>, <<"k", "o", "t", "l", "i", "n">>>>, <<<<"c">>, <<"c">>>>, 
    <<<<"h">>, <<"c">>>>, <<<<"c", "p", "p">>, <<"c", "p", "p">>>>, <<<<"c", "c">>, <<"c", "p", "p">>>>, 
    <<<<"c", "x", "x">>, <<"c", "p", "p">>>>, <<<<"c", "s">>, <<"c", "s", "h", "a", "r", "p">>>>, <<<<"r", "b">>, <<"r", "u", "b", "y">>>>, 
    <<<<"p", "h", "p">>, <<"p", "h", "p">>>>, <<<<"s", "h">>, <<"b", "a", "s", "h">>>>, <<<<"b", "a", "s", "h">>, <<"b", "a", "s", "h">>>>, 
    <<<<"z", "s", "h">>, <<"b", "a", "s", "h">>>>, <<<<"m", "d">>, <<"m", "a", "r", "k", "d", "o", "w", "n">>>>, <<<<"m", "d", "x">>, <<"m", "a", "r", "k", "d", "o", "w", "n">>>>, 
    <<<<"j", "s", "o", "n">>, <<"j", "s", "o", "n">>>>, <<<<"j", "s", "o", "n", "c">>, <<"j", "s", "o", "n">>>>, <<<<"y", "a", "m", "l">>, <<"y", "a", "m", "l">>>>, 
    <<<<"y", "m", "l">>, <<"y", "a", "m", "l">>>>, <<<<"t", "o", "m", "l">>, <<"t", "o", "m", "l">>>>, <<<<"h", "t", "m", "l">>, <<"h", "t", "m", "l">>>>, 
    <<<<"h", "t", "m">>, <<"h", "t", "m", "l">>>>, <<<<"c", "s", "s">>, <<"c", "s", "s">>>>, <<<<"s", "c", "s", "s">>, <<"s", "c", "s", "s">>>>, 
    <<<<"s", "a", "s", "s">>, <<"s", "c", "s", "s">>>>, <<<<"l", "e", "s", "s">>, <<"c", "s", "s">>>>, <<<<"x", "m", "l">>, <<"x", "m", "l">>>>, 
    <<<<"s", "v", "g">>, <<"x", "m", "l">>>>, <<<<"s", "q", "l">>, <<"s", "q", "l">>>>, <<<<"g", "r", "a", "p", "h", "q", "l">>, <<"g", "r", "a", "p", "h", "q", "l">>>>, 
    <<<<"g", "q", "l">>, <<"g", "r", "a", "p", "h", "q", "l">>>>, <<<<"t", "f">>, <<"h", "c", "l">>>>, <<<<"h", "c", "l">>, <<"h", "c", "l">>>>, 
    <<<<"d", "o", "c", "k", "e", "r", "f", "i", "l", "e">>, <<"d", "o", "c", "k", "e", "r", "f", "i", "l", "e">>>>, <<<<"s", "w", "i", "f", "t">>, <<"s", "w", "i", "f", "t">>>>, 
    <<<<"r">>, <<"r">>>>, <<<<"l", "u", "a">>, <<"l", "u", "a">>>>, <<<<"v", "i", "m">>, <<"v", "i", "m">>>>, 
    <<<<"e", "x">>, <<"e", "l", "i", "x", "i", "r">>>>, <<<<"e", "x", "s">>, <<"e", "l", "i", "x", "i", "r">>>>, <<<<"e", "r", "l">>, <<"e", "r", "l", "a", "n", "g">>>>, 
    <<<<"h", "r", "l">>, <<"e", "r", "l", "a", "n", "g">>>>, <<<<"h", "s">>, <<"h", "a", "s", "k", "e", "l", "l">>>>, <<<<"l", "h", "s">>, <<"h", "a", "s", "k", "e", "l", "l">>>>, 
    <<<<"c", "l", "j">>, <<"c", "l", "o", "j", "u", "r", "e">>>>, <<<<"c", "l", "j", "s">>, <<"c", "l", "o", "j", "u", "r", "e">>>>, 
    <<<<"s", "c", "a", "l", "a">>, <<"s", "c", "a", "l", "a">>>>, <<<<"d", "a", "r", "t">>, <<"d", "a", "r", "t">>>>, <<<<"v", "u", "e">>, <<"v", "u", "e">>>>, 
    <<<<"a", "s", "t", "r", "o">>, <<"a", "s", "t", "r", "o">>>>, <<<<"n", "i", "x">>, <<"n", "i", "x">>>> }

\* Lines 68-80
detectLanguage(filePath) ==
  LET parts == Split(filePath, "/")
      fileName == parts[Len(parts)]
      dotIndex == LastIndexOf(fileName, ".")
      ext == ToLowerCase(SliceFrom(fileName, dotIndex + 1))
      known == { p \in EXT_TO_LANG : p[1] = ext }
  IN IF ToLowerCase(fileName) = <<"d", "o", "c", "k", "e", "r", "f", "i", "l", "e">> THEN <<"d", "o", "c", "k", "e", "r", "f", "i", "l", "e">>
     ELSE IF ToLowerCase(fileName) = <<"m", "a", "k", "e", "f", "i", "l", "e">> THEN <<"m", "a", "k", "e", "f", "i", "l", "e">>
     ELSE IF dotIndex = -1 \/ dotIndex = Len(fileName) - 1 THEN <<>>
     ELSE IF known = {} THEN <<>>
     ELSE (CHOOSE p \in known : TRUE)[2]

\* Lines 104-108
formatBytes(bytes) ==
  IF bytes < 1024 THEN Dec(bytes) \o <<" ", "B">>
  ELSE IF bytes < 1024 * 1024 THEN ToFixed1(bytes, 1024) \o <<" ", "K", "B">>
  ELSE ToFixed1(bytes, 1024 * 1024) \o <<" ", "M", "B">>

\* Lines 84-102
formatSummary(result) ==
  Join(<< <<"-", "-", "-">>,
          <<"r", "e", "p", "o", ":", " ">> \o result.repoName,
          <<"r", "e", "f", ":", " ">> \o result.ref,
          <<"f", "i", "l", "e", "s", ":", " ">> \o Dec(result.fileCount),
          <<"s", "i", "z", "e", ":", " ">> \o Dec(result.totalSize),
          <<"t", "r", "u", "n", "c", "a", "t", "e", "d", ":", " ">> \o (IF result.truncated THEN <<"t", "r", "u", "e">> ELSE <<"f", "a", "l", "s", "e">>),
          <<"-", "-", "-">>,
          <<>>,
          <<"#", " ">> \o result.repoName,
          <<>>,
          <<"*", "*", "R", "e", "f", ":", "*", "*", " ", "u0060">> \o result.ref \o <<"u0060", " ", " ">>,
          <<"*", "*", "F", "i", "l", "e", "s", ":", "*", "*", " ">> \o Dec(result.fileCount) \o <<" ", " ">>,
          <<"*", "*", "T", "o", "t", "a", "l", " ", "s", "i", "z", "e", ":", "*", "*", " ">> \o formatBytes(result.totalSize) \o <<" ", " ">>,
          <<>> >>, "\n")

\* Lines 118-156: buildTree and renderTree for the children of one node.
\* paths holds, in insertion order, the segments below the node of every
\* file under it; a child is a directory when the file that created it had
\* further segments.  The box-drawing characters are kept by their code
\* points, as the backquote is ("u0060").
RECURSIVE renderTree(_, _)
renderTree(paths, prefix) ==
  LET firstAt == { i \in 1..Len(paths) : \A j \in 1..(i - 1) : paths[j][1] # paths[i][1] }
      isFirst(p) == \E i \in firstAt : paths[i] = p /\ \A j \in 1..(i - 1) : paths[j] # p
      children == SelectSeq(paths, isFirst)
      node(i) ==
        LET name == children[i][1]
            isLast == i = Len(children)
            isDir == Len(children[i]) > 1
            under(p) == p[1] = name /\ Len(p) > 1
            below == SelectSeq(paths, under)
            connector == IF isLast THEN <<"u2514", "u2500", "u2500", " ">>
                         ELSE <<"u251C", "u2500", "u2500", " ">>
            displayName == IF isDir THEN name \o <<"/">> ELSE name
            childPrefix == prefix \o (IF isLast THEN <<" ", " ", " ", " ">> ELSE <<"u2502", " ", " ", " ">>)
        IN prefix \o connector \o displayName \o <<"\n">>
             \o renderTree([ k \in 1..Len(below) |-> Tail(below[k]) ], childPrefix)
  IN Concat([ i \in 1..Len(children) |-> node(i) ])

\* Lines 158-163; an absent rootName is the empty string.
formatTree(files, rootName) ==
  LET header == IF rootName # <<>> THEN rootName \o <<"/", "\n">> ELSE <<".", "/", "\n">>
      body == renderTree([ i \in 1..Len(files) |-> Split(files[i].path, "/") ], <<>>)
  IN <<"u0060", "u0060", "u0060", "\n">> \o header \o body \o <<"u0060", "u0060", "u0060", "\n">>

\* decompressor.ts 120-122: the text of the note.
MessageText(message) ==
  <<"<", "!", "-", "-", " ", "[", "T", "R", "U", "N", "C", "A", "T", "E", "D", "]", " ", "O", "u", "t", "p", "u", "t", " ", "l", "i", "m", "i", "t", " ", "r", "e", "a", "c", "h", "e", "d", ".", " ">> \o Dec(message.included) \o <<" ", "o", "f", " ">>
    \o Dec(message.total) \o <<" ", "f", "i", "l", "e", "s", " ", "i", "n", "c", "l", "u", "d", "e", "d", ".", " ">>
    \o <<"U", "s", "e", " ", "?", "p", "a", "t", "h", "=", " ", "t", "o", " ", "t", "a", "r", "g", "e", "t", " ", "a", " ", "s", "u", "b", "d", "i", "r", "e", "c", "t", "o", "r", "y", " ", "f", "o", "r", " ", "c", "o", "m", "p", "l", "e", "t", "e", " ", "r", "e", "s", "u", "l", "t", "s", ".", " ", "-", "-", ">">>

\* Lines 167-185; f.lines ?? "-"
formatFileList(result) ==
  LET row(f) == <<"|", " ">> \o f.path \o <<" ", "|", " ">> \o Dec(f.size) \o <<" ", "|", " ">>
                  \o (IF f.lines = <<>> THEN <<"-">> ELSE Dec(f.lines[1])) \o <<" ", "|">>
      rows == Join([ i \in 1..Len(result.files) |-> row(result.files[i]) ], "\n")
      table == Join(<< <<"#", "#", " ", "F", "i", "l", "e", " ", "L", "i", "s", "t">>,
                       <<>>,
                       <<"|", " ", "P", "a", "t", "h", " ", "|", " ", "S", "i", "z", "e", " ", "(", "b", "y", "t", "e", "s", ")", " ", "|", " ", "L", "i", "n", "e", "s", " ", "|">>,
                       <<"|", "-", "-", "-", "-", "-", "-", "|", "-", "-", "-", "-", "-", "-", "-", "-", "-", "-", "-", "-", "-", "|", "-", "-", "-", "-", "-", "-", "-", "|">>,
                       rows,
                       <<>> >>, "\n")
  IN formatSummary(result) \o <<"\n", "#", "#", " ", "D", "i", "r", "e", "c", "t", "o", "r", "y", " ", "S", "t", "r", "u", "c", "t", "u", "r", "e", "\n", "\n">>
       \o formatTree(result.files, <<>>) \o <<"\n">> \o table

\* Lines 189-200; file.content ?? ""
formatFileBlock(file) ==
  Join(<< <<"#", "#", "#", " ", "u0060">> \o file.path \o <<"u0060">>,
          <<>>,
          <<"u0060", "u0060", "u0060">> \o detectLanguage(file.path),
          IF file.content = <<>> THEN <<>> ELSE file.content[1],
          <<"u0060", "u0060", "u0060">>,
          <<>> >>, "\n")

\* Lines 202-217
formatFull(result) ==
  LET header == formatSummary(result) \o <<"\n", "#", "#", " ", "D", "i", "r", "e", "c", "t", "o", "r", "y", " ", "S", "t", "r", "u", "c", "t", "u", "r", "e", "\n", "\n">>
                  \o formatTree(result.files, <<>>) \o <<"\n", "#", "#", " ", "F", "i", "l", "e", " ", "C", "o", "n", "t", "e", "n", "t", "s", "\n", "\n">>
      blocks == Concat([ i \in 1..Len(result.files) |-> formatFileBlock(result.files[i]) ])
      notice == IF result.truncated /\ result.truncationMessage.present
                THEN <<"\n">> \o MessageText(result.truncationMessage) \o <<"\n">> ELSE <<>>
  IN header \o blocks \o notice

\* Lines 221-232
formatOutput(result, detail) ==
  CASE detail = "summary" -> formatSummary(result)
    [] detail = "structure" ->
         formatSummary(result) \o <<"\n", "#", "#", " ", "D", "i", "r", "e", "c", "t", "o", "r", "y", " ", "S", "t", "r", "u", "c", "t", "u", "r", "e", "\n", "\n">> \o formatTree(result.files, <<>>)
    [] detail = "file-list" -> formatFileList(result)
    [] detail = "full" -> formatFull(result)

\* ------------------------------------------------------------------ state

VARIABLES
  unzipped,           \* Object.entries(unzipSync(zipData))
  options,            \* the DecompressOptions of the call
  pc,                 \* where decompressAndProcess is
  prefix,             \* line 30
  matcher,            \* gitignoreMatcher, line 40
  idx,                \* the entry the second pass is at
  files,              \* line 48
  totalSize,          \* line 49
  truncated,          \* line 50
  truncationMessage,  \* line 51
  totalUnfiltered,    \* line 54
  result,             \* the IngestResult returned
  admitted,           \* the archive positions of the entries pushed to files
  stopped,            \* the break taken: "none", "count" or "bytes"
  call,               \* the last call of a filter function and what it returned
  stream,             \* the response handleIngest is writing (server.ts 223-269)
  inv,                \* the locals of the pipeline invocations that run side by side
  handler,            \* the handleIngest call in progress (server.ts 111-284)
  cache               \* caches.default: the stored response of each cache key

procVars == <<unzipped, options, pc, prefix, matcher, idx, files, totalSize,
              truncated, truncationMessage, totalUnfiltered, result, admitted, stopped,
              stream, inv, handler, cache>>
vars == <<unzipped, options, pc, prefix, matcher, idx, files, totalSize,
          truncated, truncationMessage, totalUnfiltered, result, admitted, stopped, call,
          stream, inv, handler, cache>>

NoMatcher == [present |-> FALSE, rules |-> <<>>]
NoResult ==
  [ owner |-> "", repo |-> "", repoName |-> "", ref |-> "", fileCount |-> 0,
    totalSize |-> 0, truncated |-> FALSE, truncationMessage |-> NoMessage, files |-> <<>> ]
NoCall == [fn |-> "none", content |-> <<>>, path |-> <<>>, result |-> FALSE]

\* No response is being written, and no invocations run side by side.
NoStream == [pc |-> "none"]
NoInvocations == <<>>

\* No request is being handled, and nothing is stored in the cache.
NoHandler == [pc |-> "none"]
EmptyCache == [available |-> TRUE, entries |-> {}]

\* Lines 23-26 and 48-54: the locals as the function declares them.
Locals ==
  /\ prefix = <<>>
  /\ matcher = NoMatcher
  /\ idx = 1
  /\ files = <<>>
  /\ totalSize = 0
  /\ truncated = FALSE
  /\ truncationMessage = NoMessage
  /\ totalUnfiltered = 0
  /\ result = NoResult
  /\ admitted = <<>>
  /\ stopped = "none"
  /\ stream = NoStream
  /\ inv = NoInvocations
  /\ handler = NoHandler
  /\ cache = EmptyCache

\* decompressAndProcess is called with some archive and some options.
Init ==
  /\ unzipped \in Archives
  /\ options \in OptionSets
  /\ pc = "prefix"
  /\ Locals
  /\ call = NoCall

\* ------------------------------------------- decompressor.ts: the actions

\* Lines 30-37
DeterminePrefix ==
  /\ pc = "prefix"
  /\ prefix' = TopLevelPrefix(unzipped)
  /\ pc' = "gitignore"
  /\ UNCHANGED <<unzipped, options, matcher, idx, files, totalSize, truncated,
                 truncationMessage, totalUnfiltered, result, admitted, stopped, call,
                 stream, inv, handler, cache>>

\* Lines 40-45
CollectGitignore ==
  /\ pc = "gitignore"
  /\ matcher' = RootMatcher(unzipped, prefix)
  /\ pc' = "loop"
  /\ UNCHANGED <<unzipped, options, prefix, idx, files, totalSize, truncated,
                 truncationMessage, totalUnfiltered, result, admitted, stopped, call,
                 stream, inv, handler, cache>>

AtEntry == pc = "loop" /\ idx <= Len(unzipped)
entry == unzipped[idx]
filePath == StripPrefix(entry.path, prefix)
Passes == IsFileEntry(filePath) /\ ~Filtered(entry, filePath, matcher, options.subpath)

\* Lines 61 and 64: the root entry and directory entries are passed over.
SkipDirectory ==
  /\ AtEntry
  /\ ~IsFileEntry(filePath)
  /\ idx' = idx + 1
  /\ UNCHANGED <<unzipped, options, pc, prefix, matcher, files, totalSize, truncated,
                 truncationMessage, totalUnfiltered, result, admitted, stopped, call,
                 stream, inv, handler, cache>>

\* Lines 66-82: a file entry is counted, then skipped by a filter.
SkipFiltered ==
  /\ AtEntry
  /\ IsFileEntry(filePath)
  /\ Filtered(entry, filePath, matcher, options.subpath)
  /\ totalUnfiltered' = totalUnfiltered + 1
  /\ idx' = idx + 1
  /\ UNCHANGED <<unzipped, options, pc, prefix, matcher, files, totalSize, truncated,
                 truncationMessage, result, admitted, stopped, call,
                 stream, inv, handler, cache>>

\* Lines 85-88: the file-count ceiling ends the loop.
TruncateFileCount ==
  /\ AtEntry
  /\ FileCountReached(files, options.maxFileCount)
  /\ Passes
  /\ totalUnfiltered' = totalUnfiltered + 1
  /\ truncated' = TRUE
  /\ stopped' = "count"
  /\ pc' = "finish"
  /\ UNCHANGED <<unzipped, options, prefix, matcher, idx, files, totalSize,
                 truncationMessage, result, admitted, call,
                 stream, inv, handler, cache>>

\* The byte ceiling ends the loop and leaves the flag as it was.
TruncateBytesNoFlag ==
  /\ AtEntry
  /\ ~FileCountReached(files, options.maxFileCount)
  /\ BytesExceeded(options.detail, totalSize, entry.size, options.maxOutputBytes)
  /\ Passes
  /\ totalUnfiltered' = totalUnfiltered + 1
  /\ stopped' = "bytes"
  /\ pc' = "finish"
  /\ UNCHANGED <<unzipped, options, prefix, matcher, idx, files, totalSize, truncated,
                 truncationMessage, result, admitted, call,
                 stream, inv, handler, cache>>

\* Lines 90-95: the byte ceiling ends the loop.
TruncateBytes ==
  /\ AtEntry
  /\ ~FileCountReached(files, options.maxFileCount)
  /\ BytesExceeded(options.detail, totalSize, entry.size, options.maxOutputBytes)
  /\ Passes
  /\ totalUnfiltered' = totalUnfiltered + 1
  /\ truncated' = TRUE
  /\ stopped' = "bytes"
  /\ pc' = "finish"
  /\ UNCHANGED <<unzipped, options, prefix, matcher, idx, files, totalSize,
                 truncationMessage, result, admitted, call,
                 stream, inv, handler, cache>>

\* The entry is pushed and totalSize is assigned instead of increased.
AdmitAssignSize ==
  /\ AtEntry
  /\ ~FileCountReached(files, options.maxFileCount)
  /\ ~BytesExceeded(options.detail, totalSize, entry.size, options.maxOutputBytes)
  /\ Passes
  /\ totalUnfiltered' = totalUnfiltered + 1
  /\ files' = Append(files, FileEntry(ScopedPath(filePath, options.subpath), entry, options.detail))
  /\ totalSize' = entry.size
  /\ admitted' = Append(admitted, idx)
  /\ idx' = idx + 1
  /\ UNCHANGED <<unzipped, options, pc, prefix, matcher, truncated,
                 truncationMessage, result, stopped, call,
                 stream, inv, handler, cache>>

\* Lines 97-114: the entry is admitted.
Admit ==
  /\ AtEntry
  /\ ~FileCountReached(files, options.maxFileCount)
  /\ ~BytesExceeded(options.detail, totalSize, entry.size, options.maxOutputBytes)
  /\ Passes
  /\ totalUnfiltered' = totalUnfiltered + 1
  /\ files' = Append(files, FileEntry(ScopedPath(filePath, options.subpath), entry, options.detail))
  /\ totalSize' = totalSize + entry.size
  /\ admitted' = Append(admitted, idx)
  /\ idx' = idx + 1
  /\ UNCHANGED <<unzipped, options, pc, prefix, matcher, truncated,
                 truncationMessage, result, stopped, call,
                 stream, inv, handler, cache>>

\* Line 56: the entries are exhausted.
EndOfEntries ==
  /\ pc = "loop"
  /\ idx > Len(unzipped)
  /\ pc' = "finish"
  /\ UNCHANGED <<unzipped, options, prefix, matcher, idx, files, totalSize, truncated,
                 truncationMessage, totalUnfiltered, result, admitted, stopped, call,
                 stream, inv, handler, cache>>

\* Lines 117-137: the note is built and the result returned.
Return ==
  /\ pc = "finish"
  /\ truncationMessage' = TruncationMessage(truncated, Len(files), totalUnfiltered)
  /\ result' = [ owner |-> "", repo |-> "", repoName |-> "", ref |-> "",
                 fileCount |-> Len(files),
                 totalSize |-> totalSize,
                 truncated |-> truncated,
                 truncationMessage |-> truncationMessage',
                 files |-> files ]
  /\ pc' = "done"
  /\ UNCHANGED <<unzipped, options, prefix, matcher, idx, files, totalSize, truncated,
                 totalUnfiltered, admitted, stopped, call,
                 stream, inv, handler, cache>>

Next ==
  \/ DeterminePrefix
  \/ CollectGitignore
  \/ SkipDirectory
  \/ SkipFiltered
  \/ TruncateFileCount
  \/ TruncateBytes
  \/ Admit
  \/ EndOfEntries
  \/ Return

Spec == Init /\ [][Next]_vars

\* ------------------------------------- the filter functions called alone

\* The segments of the paths handed to shouldIgnorePath: every ignored
\* directory name, a directory name that is not ignored and a file name.
StaticSegments == IGNORED_DIRS \cup { <<"s", "r", "c">>, <<"a", ".", "t", "s">> }

\* The segments of the paths handed to a compiled .gitignore.
GlobSegments == { <<"s", "r", "c">>, <<"b", "u", "i", "l", "d">>, <<"l", "o", "g", "s">>, <<"e", "r", "r", "o", "r", ".", "l", "o", "g">>, <<"a", ".", "t", "m", "p">> }

\* The relative paths of at most MaxDepth segments drawn from segs.
PathsOver(segs) ==
  { Join(p, "/") : p \in UNION { [1..n -> segs] : n \in 1..MaxDepth } }

\* The lines a .gitignore is made of: the pattern kinds of README.md
\* (wildcard, globstar, directory, rooted, negation, comment), a '*' next to
\* a separator, and a line that trims to nothing.
GitignoreLines ==
  { <<"*", ".", "l", "o", "g">>, <<"!", "e", "r", "r", "o", "r", ".", "l", "o", "g">>, <<"l", "o", "g", "s", "/">>, <<"/", "b", "u", "i", "l", "d">>, <<"s", "r", "c", "/", "l", "o", "g", "s", "/">>, <<"*", "*", "/", "*", ".", "t", "m", "p">>,
    <<"s", "r", "c", "/", "*">>, <<"#", " ", "c">>, <<" ">> }

\* The .gitignore contents of at most MaxRules lines, each ended by "\n".
GitignoreContents ==
  { Join(ls, "\n") \o (IF ls = <<>> THEN <<>> ELSE <<"\n">>) :
      ls \in UNION { [1..n -> GitignoreLines] : n \in 0..MaxRules } }

\* No decompressAndProcess call is in progress.
InitFilter ==
  /\ unzipped = <<>>
  /\ options = [subpath |-> <<>>, detail |-> "full", maxOutputBytes |-> 0, maxFileCount |-> 0]
  /\ pc = "idle"
  /\ Locals
  /\ call = NoCall

\* filter.ts 95-118: shouldIgnorePath is called with a path.
CallShouldIgnorePath ==
  /\ pc = "idle"
  /\ call.fn = "none"
  /\ \E p \in PathsOver(StaticSegments) :
       call' = [fn |-> "shouldIgnorePath", content |-> <<>>, path |-> p,
                result |-> shouldIgnorePath(p)]
  /\ UNCHANGED procVars

\* filter.ts 182-209: a .gitignore is compiled and its matcher is called
\* with a path.
CallParseGitignore ==
  /\ pc = "idle"
  /\ call.fn = "none"
  /\ \E c \in GitignoreContents, p \in PathsOver(GlobSegments) :
       call' = [fn |-> "parseGitignore", content |-> c, path |-> p,
                result |-> gitignoreMatcher(parseGitignore(c), p)]
  /\ UNCHANGED procVars

\* The buffers handed to isBinaryContent: empty, shorter than the window, as
\* long as the window and longer, with no zero byte or with the first one at
\* the start, inside the buffer, at the last offset of the window, at the
\* first offset behind it or further on (part_007 112-135).
Buffers ==
  { b \in [size : {0, 100, BINARY_SNIFF_BYTES, BINARY_SNIFF_BYTES + 1, 10000},
            firstZero : {-1, 0, 50, BINARY_SNIFF_BYTES - 1, BINARY_SNIFF_BYTES, 9000}] :
      b.firstZero < b.size }

\* filter.ts 124-130: isBinaryContent is called with a buffer.
CallIsBinaryContent ==
  /\ pc = "idle"
  /\ call.fn = "none"
  /\ \E b \in Buffers :
       call' = [fn |-> "isBinaryContent", buffer |-> b, result |-> isBinaryContent(b)]
  /\ UNCHANGED procVars

\* The paths of the entries handed to filterBySubpath (part_007 176-181):
\* files below src, a file at the root, an entry named as the subpath and a
\* file below a directory whose name only begins as the subpath does.
SubpathFilePaths ==
  { <<"s", "r", "c", "/", "i", "n", "d", "e", "x", ".", "t", "s">>, <<"s", "r", "c", "/", "c", "/", "B", "u", "t", "t", "o", "n", ".", "t", "s", "x">>, <<"R", "E", "A", "D", "M", "E", ".", "m", "d">>, <<"s", "r", "c">>, <<"s", "r", "c", "s", "/", "x", ".", "t", "s">> }

\* The lists of at most MaxEntries FileEntry objects over those paths; the
\* size of an entry is the length of its path.
SubpathFileLists ==
  UNION { [1..n -> { [path |-> p, size |-> Len(p)] : p \in SubpathFilePaths }] :
            n \in 0..MaxEntries }

\* The subpaths asked for: none, a directory, a directory written with a
\* trailing '/', a deeper directory and one that no entry lies in.
Subpaths == { <<>>, <<"s", "r", "c">>, <<"s", "r", "c", "/">>, <<"s", "r", "c", "/", "c">>, <<"n", "o", "n", "e">> }

\* filter.ts 215-225: filterBySubpath is called with a list and a subpath,
\* and once more on what it returned with the empty subpath.
CallFilterBySubpath ==
  /\ pc = "idle"
  /\ call.fn = "none"
  /\ \E fs \in SubpathFileLists, s \in Subpaths :
       call' = [fn |-> "filterBySubpath", files |-> fs, subpath |-> s,
                result |-> filterBySubpath(fs, s),
                again |-> filterBySubpath(filterBySubpath(fs, s), <<>>)]
  /\ UNCHANGED procVars

\* The caller takes the returned value.
TakeResult ==
  /\ pc = "idle"
  /\ call.fn # "none"
  /\ call' = NoCall
  /\ UNCHANGED procVars

NextFilter ==
  \/ CallShouldIgnorePath
  \/ CallParseGitignore
  \/ CallIsBinaryContent
  \/ CallFilterBySubpath
  \/ TakeResult

SpecFilter == InitFilter /\ [][NextFilter]_vars

\* ------------------------------------- server.ts: the response of an ingest

\* The entries a result is built from, by the paths they have in the
\* result: a source file, a file in a directory whose text has no final
\* newline, a Markdown file whose text holds a fence of its own, an empty
\* file without extension and a file with a byte that is not UTF-8.
RenderEntries ==
  { TextFile(<<"a", ".", "t", "s">>, <<"a", "\n">>),
    TextFile(<<"s", "r", "c", "/", "b", ".", "p", "y">>, <<"b">>),
    TextFile(<<"R", "E", "A", "D", "M", "E", ".", "m", "d">>, <<"x", "\n", "u0060", "u0060", "u0060", "\n", "y", "\n">>),
    TextFile(<<"s", "r", "c", "/", "e">>, <<>>),
    TextFile(<<"n", ".", "t", "x", "t">>, <<"xFF">>) }

\* The results decompressAndProcess returns at a detail level for at most
\* MaxEntries of those entries, truncated or not, with the metadata
\* handleIngest fills in (server.ts 186-197).  A truncated result counts at
\* least the entry that was turned away beside the included ones.
RenderResults(detail) ==
  { [ owner |-> <<"o">>, repo |-> <<"r">>, repoName |-> <<"o", "/", "r">>, ref |-> <<"m", "a", "i", "n">>,
      fileCount |-> Len(es),
      totalSize |-> SumSizes(es),
      truncated |-> t,
      truncationMessage |-> TruncationMessage(t, Len(es), Len(es) + 1),
      files |-> [ i \in 1..Len(es) |-> FileEntry(es[i].path, es[i], detail) ] ] :
    es \in { a \in UNION { [1..n -> RenderEntries] : n \in 0..MaxEntries } :
               \A i, j \in 1..Len(a) : i # j => a[i].path # a[j].path },
    t \in BOOLEAN }

\* server.ts 223: handleIngest holds a result and is about to respond.  The
\* response records the chunks the writer got through, the text sent at
\* once, the text put in the cache, and how many chunks were through when
\* the consumer went away (-1: it has not).
InitRespond ==
  /\ unzipped = <<>>
  /\ \E d \in DetailLevels :
       /\ options = [subpath |-> <<>>, detail |-> d, maxOutputBytes |-> 0, maxFileCount |-> 0]
       /\ result \in RenderResults(d)
  /\ pc = "respond"
  /\ prefix = <<>>
  /\ matcher = NoMatcher
  /\ idx = 1
  /\ files = <<>>
  /\ totalSize = 0
  /\ truncated = FALSE
  /\ truncationMessage = NoMessage
  /\ totalUnfiltered = 0
  /\ admitted = <<>>
  /\ stopped = "none"
  /\ inv = NoInvocations
  /\ handler = NoHandler
  /\ cache = EmptyCache
  /\ call = NoCall
  /\ stream = [pc |-> "start", next |-> 1, chunks |-> <<>>, consumer |-> "reading",
               cancelledAt |-> -1, body |-> <<>>, cached |-> <<>>]

respondFrame == <<unzipped, options, pc, prefix, matcher, idx, files, totalSize, truncated,
                  truncationMessage, totalUnfiltered, result, admitted, stopped, call, inv,
                  handler, cache>>

\* Lines 229-232: the header of the streamed response.
StreamHeader(r) ==
  formatSummary(r) \o <<"\n", "#", "#", " ", "D", "i", "r", "e", "c", "t", "o", "r", "y", " ", "S", "t", "r", "u", "c", "t", "u", "r", "e", "\n", "\n">> \o formatTree(r.files, <<>>)
    \o <<"\n", "#", "#", " ", "F", "i", "l", "e", " ", "C", "o", "n", "t", "e", "n", "t", "s", "\n", "\n">>

\* A notice chunk without the newlines around the note.
StreamNoticeBare(r) == MessageText(r.truncationMessage)

\* Lines 240-241: the notice chunk.
StreamNotice(r) == <<"\n">> \o MessageText(r.truncationMessage) \o <<"\n">>

\* Line 240
HasNotice(r) == r.truncated /\ r.truncationMessage.present

\* Lines 224-258: the streaming branch is entered; the writer's first write
\* is pending and the whole text is rendered for the cache (line 250).
StartStream ==
  /\ pc = "respond"
  /\ stream.pc = "start"
  /\ options.detail = "full"
  /\ stream' = [stream EXCEPT !.pc = "header", !.cached = formatOutput(result, "full")]
  /\ UNCHANGED respondFrame

\* Lines 261-269: the other levels are rendered and sent at once.
RespondAtOnce ==
  /\ pc = "respond"
  /\ stream.pc = "start"
  /\ options.detail # "full"
  /\ stream' = [stream EXCEPT !.pc = "sent", !.body = formatOutput(result, options.detail),
                              !.cached = formatOutput(result, options.detail)]
  /\ UNCHANGED respondFrame

\* Line 236: the header is written.
WriteHeader ==
  /\ stream.pc = "header"
  /\ stream.consumer = "reading"
  /\ stream' = [stream EXCEPT !.pc = "files", !.chunks = Append(@, StreamHeader(result))]
  /\ UNCHANGED respondFrame

\* Lines 237-239: the block of the next file is written.
WriteFile ==
  /\ stream.pc = "files"
  /\ stream.next <= Len(result.files)
  /\ stream.consumer = "reading"
  /\ stream' = [stream EXCEPT !.next = @ + 1,
                              !.chunks = Append(@, formatFileBlock(result.files[stream.next]))]
  /\ UNCHANGED respondFrame

\* Lines 240-242: the files are exhausted; the notice is written when the
\* result is truncated.
WriteNotice ==
  /\ stream.pc = "files"
  /\ stream.next > Len(result.files)
  /\ HasNotice(result)
  /\ stream.consumer = "reading"
  /\ stream' = [stream EXCEPT !.pc = "close", !.chunks = Append(@, StreamNotice(result))]
  /\ UNCHANGED respondFrame

\* Line 240: the files are exhausted and there is no notice to write.
SkipNotice ==
  /\ stream.pc = "files"
  /\ stream.next > Len(result.files)
  /\ ~HasNotice(result)
  /\ stream' = [stream EXCEPT !.pc = "close"]
  /\ UNCHANGED respondFrame

\* Line 243
CloseStream ==
  /\ stream.pc = "close"
  /\ stream.consumer = "reading"
  /\ stream' = [stream EXCEPT !.pc = "closed"]
  /\ UNCHANGED respondFrame

\* The reader of the response body goes away while the stream is open.
ConsumerCancels ==
  /\ stream.pc \in {"header", "files", "close"}
  /\ stream.consumer = "reading"
  /\ stream' = [stream EXCEPT !.consumer = "cancelled", !.cancelledAt = Len(stream.chunks)]
  /\ UNCHANGED respondFrame

\* The writer that leaves out the chunk that was refused and goes on.
WriteRejectedGoesOn ==
  /\ stream.pc \in {"header", "files", "close"}
  /\ stream.consumer = "cancelled"
  /\ stream' = [stream EXCEPT !.consumer = "reading",
                              !.pc = IF @ = "header" THEN "files" ELSE @,
                              !.next = IF stream.pc = "files" THEN @ + 1 ELSE @]
  /\ UNCHANGED respondFrame

\* Lines 235-244: the awaited write (or close) rejects, the async function
\* ends with that rejection and runs no later statement.
WriteRejected ==
  /\ stream.pc \in {"header", "files", "close"}
  /\ ~(stream.pc = "files" /\ stream.next > Len(result.files) /\ ~HasNotice(result))
  /\ stream.consumer = "cancelled"
  /\ stream' = [stream EXCEPT !.pc = "failed"]
  /\ UNCHANGED respondFrame

NextRespond ==
  \/ StartStream
  \/ RespondAtOnce
  \/ WriteHeader
  \/ WriteFile
  \/ WriteNotice
  \/ SkipNotice
  \/ CloseStream
  \/ ConsumerCancels
  \/ WriteRejected

SpecRespond == InitRespond /\ [][NextRespond]_vars

\* --------------------------- the pipeline invoked for independent requests

\* The requests served side by side.
MaxInvocations == 2

\* The entry of the pool with a path.
EntryAt(path) == CHOOSE e \in EntryPool : e.path = path

\* The archives of the requests: one with a .gitignore that excludes one of
\* its files, the same files without the .gitignore, and other files.
ConcurrentArchives ==
  { << EntryAt(<<"r", "/", "s", "r", "c", "/", "e", ".", "l", "o", "g">>), EntryAt(<<"r", "/", "a", ".", "t", "s">>), EntryAt(<<"r", "/", ".", "g", "i", "t", "i", "g", "n", "o", "r", "e">>) >>,
    << EntryAt(<<"r", "/", "s", "r", "c", "/", "e", ".", "l", "o", "g">>), EntryAt(<<"r", "/", "a", ".", "t", "s">>) >>,
    << EntryAt(<<"r", "/", "a", ".", "t", "s">>), EntryAt(<<"r", "/", "s", "r", "c", "/", "b", ".", "t", "s">>) >> }

\* The options of the requests.
ConcurrentOptions ==
  [ subpath : {<<>>}, detail : {"full"}, maxOutputBytes : {MaxOutputBytes},
    maxFileCount : {1, MaxFileCount} ]

\* decompressor.ts 19-54: the arguments and the locals of one invocation as
\* it starts.
Invocation(archive, opts) ==
  [ unzipped |-> archive, options |-> opts, pc |-> "prefix", prefix |-> <<>>,
    matcher |-> NoMatcher, idx |-> 1, files |-> <<>>, totalSize |-> 0,
    truncated |-> FALSE, totalUnfiltered |-> 0, result |-> NoResult, output |-> <<>> ]

\* decompressor.ts 28-137 and formatter.ts 221: the next step of one
\* invocation, which consults the matcher m in the loop.  The steps are
\* those of DeterminePrefix, CollectGitignore, the loop's skips, ceilings
\* and push, Return with the metadata of the request filled in
\* (server.ts 194-197), and formatOutput.
StepOf(l, m) ==
  LET e == l.unzipped[l.idx]
      path == StripPrefix(e.path, l.prefix)
      o == l.options
  IN CASE l.pc = "prefix" ->
            [l EXCEPT !.prefix = TopLevelPrefix(l.unzipped), !.pc = "gitignore"]
       [] l.pc = "gitignore" ->
            [l EXCEPT !.matcher = RootMatcher(l.unzipped, l.prefix), !.pc = "loop"]
       [] l.pc = "loop" ->
            IF l.idx > Len(l.unzipped) THEN [l EXCEPT !.pc = "finish"]
            ELSE IF ~IsFileEntry(path) THEN [l EXCEPT !.idx = @ + 1]
            ELSE IF Filtered(e, path, m, o.subpath)
              THEN [l EXCEPT !.idx = @ + 1, !.totalUnfiltered = @ + 1]
            ELSE IF \/ FileCountReached(l.files, o.maxFileCount)
                    \/ BytesExceeded(o.detail, l.totalSize, e.size, o.maxOutputBytes)
              THEN [l EXCEPT !.truncated = TRUE, !.totalUnfiltered = @ + 1, !.pc = "finish"]
            ELSE [l EXCEPT !.files = Append(@, FileEntry(ScopedPath(path, o.subpath), e, o.detail)),
                           !.totalSize = @ + e.size,
                           !.totalUnfiltered = @ + 1,
                           !.idx = @ + 1]
       [] l.pc = "finish" ->
            [l EXCEPT !.pc = "format",
                      !.result = [ owner |-> <<"o">>, repo |-> <<"r">>, repoName |-> <<"o", "/", "r">>,
                                   ref |-> <<"m", "a", "i", "n">>,
                                   fileCount |-> Len(l.files),
                                   totalSize |-> l.totalSize,
                                   truncated |-> l.truncated,
                                   truncationMessage |->
                                     TruncationMessage(l.truncated, Len(l.files), l.totalUnfiltered),
                                   files |-> l.files ]]
       [] l.pc = "format" ->
            [l EXCEPT !.pc = "done", !.output = formatOutput(l.result, o.detail)]

\* The invocation run to its end with nothing else running.
RECURSIVE RunAlone(_)
RunAlone(l) == IF l.pc = "done" THEN l ELSE RunAlone(StepOf(l, l.matcher))

\* The matcher an invocation would consult if the first invocation's were
\* kept for all of them.
MatcherOfFirst(invs, i) == invs[1].matcher

\* decompressor.ts 40 and 72: the matcher an invocation consults is the one
\* it compiled itself.
MatcherOf(invs, i) == invs[i].matcher

\* MaxInvocations requests arrive, each with an archive and options.
InitConcurrent ==
  /\ unzipped = <<>>
  /\ options = [subpath |-> <<>>, detail |-> "full", maxOutputBytes |-> 0, maxFileCount |-> 0]
  /\ pc = "concurrent"
  /\ prefix = <<>>
  /\ matcher = NoMatcher
  /\ idx = 1
  /\ files = <<>>
  /\ totalSize = 0
  /\ truncated = FALSE
  /\ truncationMessage = NoMessage
  /\ totalUnfiltered = 0
  /\ result = NoResult
  /\ admitted = <<>>
  /\ stopped = "none"
  /\ stream = NoStream
  /\ handler = NoHandler
  /\ cache = EmptyCache
  /\ call = NoCall
  /\ inv \in [ 1..MaxInvocations ->
                 { Invocation(a, o) : a \in ConcurrentArchives, o \in ConcurrentOptions } ]

concurrentFrame == <<unzipped, options, pc, prefix, matcher, idx, files, totalSize, truncated,
                     truncationMessage, totalUnfiltered, result, admitted, stopped, call, stream,
                     handler, cache>>

\* One invocation takes a step of decompressAndProcess.
Advance(i) ==
  /\ inv[i].pc \in {"prefix", "gitignore", "loop", "finish"}
  /\ inv' = [inv EXCEPT ![i] = StepOf(inv[i], MatcherOf(inv, i))]
  /\ UNCHANGED concurrentFrame

\* One invocation renders its result.
Render(i) ==
  /\ inv[i].pc = "format"
  /\ inv' = [inv EXCEPT ![i] = StepOf(inv[i], MatcherOf(inv, i))]
  /\ UNCHANGED concurrentFrame

NextConcurrent ==
  \/ \E i \in 1..MaxInvocations : Advance(i)
  \/ \E i \in 1..MaxInvocations : Render(i)

SpecConcurrent == InitConcurrent /\ [][NextConcurrent]_vars

\* ------------------------------------------------ parser.ts: parseRequest

\* Line 214
VALID_DETAIL_LEVELS == { <<"s", "u", "m", "m", "a", "r", "y">>, <<"s", "t", "r", "u", "c", "t", "u", "r", "e">>, <<"f", "i", "l", "e", "-", "l", "i", "s", "t">>, <<"f", "u", "l", "l">> }

\* A thrown ParseError with its message.
ParseError(message) == [ok |-> FALSE, error |-> "ParseError", message |-> message]

\* URLSearchParams.get: the value of the first parameter with the key, as a
\* sequence of one value, or the empty sequence for null.  A key given
\* without '=' has the empty string as its value.
SearchParamsGet(params, key) ==
  LET at == { i \in 1..Len(params) : params[i].key = key }
  IN IF at = {} THEN <<>>
     ELSE << params[CHOOSE i \in at : \A j \in at : i <= j].value >>

\* Lines 216-224; raw is null (<<>>) or one string.
parseDetail(raw) ==
  IF raw = <<>> \/ raw[1] = <<>> THEN [ok |-> TRUE, detail |-> <<"f", "u", "l", "l">>]
  ELSE IF raw[1] \notin VALID_DETAIL_LEVELS
    THEN ParseError(<<"I", "n", "v", "a", "l", "i", "d", " ", "d", "e", "t", "a", "i", "l", " ", "l", "e", "v", "e", "l", " ">> \o <<"\"">> \o raw[1] \o <<"\"">>
                      \o <<".", " ", "M", "u", "s", "t", " ", "b", "e", " ", "o", "n", "e", " ", "o", "f", ":", " ", "s", "u", "m", "m", "a", "r", "y", ",", " ", "s", "t", "r", "u", "c", "t", "u", "r", "e", ",", " ", "f", "i", "l", "e", "-", "l", "i", "s", "t", ",", " ", "f", "u", "l", "l", ".">>)
  ELSE [ok |-> TRUE, detail |-> raw[1]]

\* parseOwnerRepo without the trimming of the two segments.
parseOwnerRepoUntrimmed(raw) ==
  LET parts == Split(raw, "/")
  IN IF Len(parts) < 2
       THEN ParseError(<<"C", "o", "u", "l", "d", " ", "n", "o", "t", " ", "p", "a", "r", "s", "e", " ", "r", "e", "p", "o", " ">> \o <<"\"">> \o raw \o <<"\"">>
                         \o <<".", " ", "E", "x", "p", "e", "c", "t", "e", "d", " ", "f", "o", "r", "m", "a", "t", ":", " ", "o", "w", "n", "e", "r", "/", "r", "e", "p", "o">>)
     ELSE IF parts[1] = <<>> THEN ParseError(<<"R", "e", "p", "o", "s", "i", "t", "o", "r", "y", " ", "o", "w", "n", "e", "r", " ", "m", "u", "s", "t", " ", "n", "o", "t", " ", "b", "e", " ", "e", "m", "p", "t", "y", ".">>)
     ELSE IF parts[2] = <<>> THEN ParseError(<<"R", "e", "p", "o", "s", "i", "t", "o", "r", "y", " ", "n", "a", "m", "e", " ", "m", "u", "s", "t", " ", "n", "o", "t", " ", "b", "e", " ", "e", "m", "p", "t", "y", ".">>)
     ELSE [ok |-> TRUE, owner |-> parts[1], repo |-> parts[2]]

\* Lines 226-242
parseOwnerRepo(raw) ==
  LET parts == Split(raw, "/")
  IN IF Len(parts) < 2
       THEN ParseError(<<"C", "o", "u", "l", "d", " ", "n", "o", "t", " ", "p", "a", "r", "s", "e", " ", "r", "e", "p", "o", " ">> \o <<"\"">> \o raw \o <<"\"">>
                         \o <<".", " ", "E", "x", "p", "e", "c", "t", "e", "d", " ", "f", "o", "r", "m", "a", "t", ":", " ", "o", "w", "n", "e", "r", "/", "r", "e", "p", "o">>)
     ELSE IF Trim(parts[1]) = <<>> THEN ParseError(<<"R", "e", "p", "o", "s", "i", "t", "o", "r", "y", " ", "o", "w", "n", "e", "r", " ", "m", "u", "s", "t", " ", "n", "o", "t", " ", "b", "e", " ", "e", "m", "p", "t", "y", ".">>)
     ELSE IF Trim(parts[2]) = <<>> THEN ParseError(<<"R", "e", "p", "o", "s", "i", "t", "o", "r", "y", " ", "n", "a", "m", "e", " ", "m", "u", "s", "t", " ", "n", "o", "t", " ", "b", "e", " ", "e", "m", "p", "t", "y", ".">>)
     ELSE [ok |-> TRUE, owner |-> Trim(parts[1]), repo |-> Trim(parts[2])]

\* parseRequest taking the segment after owner and repo for the marker
\* whatever it is.
parseRequestAnyMarker(request) ==
  LET noCache == SearchParamsGet(request.params, <<"n", "o", "-", "c", "a", "c", "h", "e">>) = <<<<"t", "r", "u", "e">>>>
      detail == parseDetail(SearchParamsGet(request.params, <<"d", "e", "t", "a", "i", "l">>))
      repoParam == SearchParamsGet(request.params, <<"r", "e", "p", "o">>)
      ownerRepo == parseOwnerRepo(repoParam[1])
      ref == SearchParamsGet(request.params, <<"r", "e", "f">>)
      path == SearchParamsGet(request.params, <<"p", "a", "t", "h">>)
      ghPath == SliceFrom(request.pathname, Len(<<"/", "h", "t", "t", "p", "s", ":", "/", "/", "g", "i", "t", "h", "u", "b", ".", "c", "o", "m">>))
      segments == Split(IF StartsWith(ghPath, <<"/">>) THEN Tail(ghPath) ELSE ghPath, "/")
      hasTree == Len(segments) >= 4
  IN IF ~detail.ok THEN detail
     ELSE IF request.pathname = <<"/", "i", "n", "g", "e", "s", "t">> THEN
       IF repoParam = <<>> \/ Trim(repoParam[1]) = <<>>
         THEN ParseError(<<"M", "i", "s", "s", "i", "n", "g", " ", "r", "e", "q", "u", "i", "r", "e", "d", " ">> \o <<"\"">> \o <<"r", "e", "p", "o">> \o <<"\"">>
                           \o <<" ", "p", "a", "r", "a", "m", "e", "t", "e", "r", ".", " ", "E", "x", "p", "e", "c", "t", "e", "d", " ", "f", "o", "r", "m", "a", "t", ":", " ", "?", "r", "e", "p", "o", "=", "o", "w", "n", "e", "r", "/", "r", "e", "p", "o">>)
       ELSE IF ~ownerRepo.ok THEN ownerRepo
       ELSE [ ok |-> TRUE, owner |-> ownerRepo.owner, repo |-> ownerRepo.repo,
              ref |-> IF ref = <<>> \/ ref[1] = <<>> THEN <<>> ELSE ref,
              path |-> IF path = <<>> \/ path[1] = <<>> THEN <<>> ELSE path,
              detail |-> detail.detail, noCache |-> noCache ]
     ELSE IF StartsWith(request.pathname, <<"/", "h", "t", "t", "p", "s", ":", "/", "/", "g", "i", "t", "h", "u", "b", ".", "c", "o", "m", "/">>) THEN
       IF Len(segments) < 2 \/ segments[1] = <<>> \/ segments[2] = <<>>
         THEN ParseError(<<"C", "o", "u", "l", "d", " ", "n", "o", "t", " ", "p", "a", "r", "s", "e", " ", "G", "i", "t", "H", "u", "b", " ", "U", "R", "L", ".", " ", "E", "x", "p", "e", "c", "t", "e", "d", " ", "f", "o", "r", "m", "a", "t", ":", " ", "h", "t", "t", "p", "s", ":", "/", "/", "g", "i", "t", "h", "u", "b", ".", "c", "o", "m", "/", "o", "w", "n", "e", "r", "/", "r", "e", "p", "o">>)
       ELSE [ ok |-> TRUE, owner |-> segments[1], repo |-> segments[2],
              ref |-> IF hasTree THEN <<segments[4]>> ELSE <<>>,
              path |-> IF hasTree /\ Len(segments) > 4
                       THEN <<Join(SubSeq(segments, 5, Len(segments)), "/")>> ELSE <<>>,
              detail |-> detail.detail, noCache |-> noCache ]
     ELSE ParseError(<<"R", "e", "q", "u", "e", "s", "t", " ", "d", "i", "d", " ", "n", "o", "t", " ", "m", "a", "t", "c", "h", " ", "a", "n", "y", " ", "s", "u", "p", "p", "o", "r", "t", "e", "d", " ", "r", "o", "u", "t", "e", ".", " ">>
                       \o <<"U", "s", "e", " ", "/", "i", "n", "g", "e", "s", "t", "?", "r", "e", "p", "o", "=", "o", "w", "n", "e", "r", "/", "r", "e", "p", "o", " ", "o", "r", " ", "/", "h", "t", "t", "p", "s", ":", "/", "/", "g", "i", "t", "h", "u", "b", ".", "c", "o", "m", "/", "o", "w", "n", "e", "r", "/", "r", "e", "p", "o">>)

\* Lines 250-308.  The request is its URL as the URL class splits it: the
\* pathname and the query parameters in their order.  An optional field of
\* the descriptor is a sequence of at most one value.  The pathname of the
\* GitHub URL (line 269) is what follows the host.
parseRequest(request) ==
  LET noCache == SearchParamsGet(request.params, <<"n", "o", "-", "c", "a", "c", "h", "e">>) = <<<<"t", "r", "u", "e">>>>
      detail == parseDetail(SearchParamsGet(request.params, <<"d", "e", "t", "a", "i", "l">>))
      repoParam == SearchParamsGet(request.params, <<"r", "e", "p", "o">>)
      ownerRepo == parseOwnerRepo(repoParam[1])
      ref == SearchParamsGet(request.params, <<"r", "e", "f">>)
      path == SearchParamsGet(request.params, <<"p", "a", "t", "h">>)
      ghPath == SliceFrom(request.pathname, Len(<<"/", "h", "t", "t", "p", "s", ":", "/", "/", "g", "i", "t", "h", "u", "b", ".", "c", "o", "m">>))
      segments == Split(IF StartsWith(ghPath, <<"/">>) THEN Tail(ghPath) ELSE ghPath, "/")
      hasTree == Len(segments) >= 4 /\ segments[3] = <<"t", "r", "e", "e">>
  IN IF ~detail.ok THEN detail
     ELSE IF request.pathname = <<"/", "i", "n", "g", "e", "s", "t">> THEN
       IF repoParam = <<>> \/ Trim(repoParam[1]) = <<>>
         THEN ParseError(<<"M", "i", "s", "s", "i", "n", "g", " ", "r", "e", "q", "u", "i", "r", "e", "d", " ">> \o <<"\"">> \o <<"r", "e", "p", "o">> \o <<"\"">>
                           \o <<" ", "p", "a", "r", "a", "m", "e", "t", "e", "r", ".", " ", "E", "x", "p", "e", "c", "t", "e", "d", " ", "f", "o", "r", "m", "a", "t", ":", " ", "?", "r", "e", "p", "o", "=", "o", "w", "n", "e", "r", "/", "r", "e", "p", "o">>)
       ELSE IF ~ownerRepo.ok THEN ownerRepo
       ELSE [ ok |-> TRUE, owner |-> ownerRepo.owner, repo |-> ownerRepo.repo,
              ref |-> IF ref = <<>> \/ ref[1] = <<>> THEN <<>> ELSE ref,
              path |-> IF path = <<>> \/ path[1] = <<>> THEN <<>> ELSE path,
              detail |-> detail.detail, noCache |-> noCache ]
     ELSE IF StartsWith(request.pathname, <<"/", "h", "t", "t", "p", "s", ":", "/", "/", "g", "i", "t", "h", "u", "b", ".", "c", "o", "m", "/">>) THEN
       IF Len(segments) < 2 \/ segments[1] = <<>> \/ segments[2] = <<>>
         THEN ParseError(<<"C", "o", "u", "l", "d", " ", "n", "o", "t", " ", "p", "a", "r", "s", "e", " ", "G", "i", "t", "H", "u", "b", " ", "U", "R", "L", ".", " ", "E", "x", "p", "e", "c", "t", "e", "d", " ", "f", "o", "r", "m", "a", "t", ":", " ", "h", "t", "t", "p", "s", ":", "/", "/", "g", "i", "t", "h", "u", "b", ".", "c", "o", "m", "/", "o", "w", "n", "e", "r", "/", "r", "e", "p", "o">>)
       ELSE [ ok |-> TRUE, owner |-> segments[1], repo |-> segments[2],
              ref |-> IF hasTree THEN <<segments[4]>> ELSE <<>>,
              path |-> IF hasTree /\ Len(segments) > 4
                       THEN <<Join(SubSeq(segments, 5, Len(segments)), "/")>> ELSE <<>>,
              detail |-> detail.detail, noCache |-> noCache ]
     ELSE ParseError(<<"R", "e", "q", "u", "e", "s", "t", " ", "d", "i", "d", " ", "n", "o", "t", " ", "m", "a", "t", "c", "h", " ", "a", "n", "y", " ", "s", "u", "p", "p", "o", "r", "t", "e", "d", " ", "r", "o", "u", "t", "e", ".", " ">>
                       \o <<"U", "s", "e", " ", "/", "i", "n", "g", "e", "s", "t", "?", "r", "e", "p", "o", "=", "o", "w", "n", "e", "r", "/", "r", "e", "p", "o", " ", "o", "r", " ", "/", "h", "t", "t", "p", "s", ":", "/", "/", "g", "i", "t", "h", "u", "b", ".", "c", "o", "m", "/", "o", "w", "n", "e", "r", "/", "r", "e", "p", "o">>)

\* The most query parameters of a request.
MaxParams == 3

\* A parameter key=value, and a key given bare.
Param(key, value) == [key |-> key, value |-> value, bare |-> FALSE]
Flag(key) == [key |-> key, value |-> <<>>, bare |-> TRUE]

\* The query parameters of the requests: repo with both segments, with a
\* blank owner, with a blank name and without a '/'; detail with a level,
\* with an unknown token and empty; detail keywords given bare; ref and
\* no-cache.
ParamPool ==
  { Param(<<"r", "e", "p", "o">>, <<"o", "/", "r">>), Param(<<"r", "e", "p", "o">>, <<" ", "/", "r">>), Param(<<"r", "e", "p", "o">>, <<"o", "/", " ">>),
    Param(<<"r", "e", "p", "o">>, <<"o">>),
    Param(<<"d", "e", "t", "a", "i", "l">>, <<"s", "u", "m", "m", "a", "r", "y">>), Param(<<"d", "e", "t", "a", "i", "l">>, <<"b", "o", "g", "u", "s">>), Param(<<"d", "e", "t", "a", "i", "l">>, <<>>),
    Flag(<<"s", "t", "r", "u", "c", "t", "u", "r", "e">>), Flag(<<"f", "i", "l", "e", "-", "l", "i", "s", "t">>),
    Param(<<"r", "e", "f">>, <<"m", "a", "i", "n">>), Param(<<"n", "o", "-", "c", "a", "c", "h", "e">>, <<"t", "r", "u", "e">>) }

\* The pathnames of the requests: the canonical form, the URL-appended form
\* with and without tree, ref and subpath, with tree as the last segment,
\* with another word in its place and with tree further along, with a
\* missing or empty owner or name, and paths of neither form.
Pathnames ==
  { <<"/", "i", "n", "g", "e", "s", "t">>,
    <<"/", "h", "t", "t", "p", "s", ":", "/", "/", "g", "i", "t", "h", "u", "b", ".", "c", "o", "m", "/", "o", "/", "r">>,
    <<"/", "h", "t", "t", "p", "s", ":", "/", "/", "g", "i", "t", "h", "u", "b", ".", "c", "o", "m", "/", "o", "/", "r", "/", "t", "r", "e", "e", "/", "m", "a", "i", "n">>,
    <<"/", "h", "t", "t", "p", "s", ":", "/", "/", "g", "i", "t", "h", "u", "b", ".", "c", "o", "m", "/", "o", "/", "r", "/", "t", "r", "e", "e", "/", "m", "a", "i", "n", "/", "s", "r", "c", "/", "l", "i", "b">>,
    <<"/", "h", "t", "t", "p", "s", ":", "/", "/", "g", "i", "t", "h", "u", "b", ".", "c", "o", "m", "/", "o", "/", "r", "/", "t", "r", "e", "e">>,
    <<"/", "h", "t", "t", "p", "s", ":", "/", "/", "g", "i", "t", "h", "u", "b", ".", "c", "o", "m", "/", "o", "/", "r", "/", "t", "r", "e", "e", "/", "v", "1", "/">>,
    <<"/", "h", "t", "t", "p", "s", ":", "/", "/", "g", "i", "t", "h", "u", "b", ".", "c", "o", "m", "/", "o", "/", "r", "/", "b", "l", "o", "b", "/", "m", "a", "i", "n", "/", "s", "r", "c">>,
    <<"/", "h", "t", "t", "p", "s", ":", "/", "/", "g", "i", "t", "h", "u", "b", ".", "c", "o", "m", "/", "o", "/", "r", "/", "x", "/", "t", "r", "e", "e", "/", "m", "a", "i", "n">>,
    <<"/", "h", "t", "t", "p", "s", ":", "/", "/", "g", "i", "t", "h", "u", "b", ".", "c", "o", "m", "/", "o">>,
    <<"/", "h", "t", "t", "p", "s", ":", "/", "/", "g", "i", "t", "h", "u", "b", ".", "c", "o", "m", "/", "o", "/">>,
    <<"/", "h", "t", "t", "p", "s", ":", "/", "/", "g", "i", "t", "h", "u", "b", ".", "c", "o", "m", "/", "/", "r">>,
    <<"/", "h", "t", "t", "p", "s", ":", "/", "/", "g", "i", "t", "h", "u", "b", ".", "c", "o", "m", "/">>,
    <<"/", "i", "n", "g", "e", "s", "t", "/">>,
    <<"/", "h", "t", "t", "p", "s", ":", "/", "/", "g", "i", "t", "l", "a", "b", ".", "c", "o", "m", "/", "o", "/", "r">> }

Requests ==
  [ pathname : Pathnames,
    params : UNION { [1..n -> ParamPool] : n \in 0..MaxParams } ]

\* No request is being parsed.
InitParser == InitFilter

\* Lines 250-308: parseRequest is called with a request.
CallParseRequest ==
  /\ pc = "idle"
  /\ call.fn = "none"
  /\ \E r \in Requests :
       call' = [fn |-> "parseRequest", request |-> r, result |-> parseRequest(r)]
  /\ UNCHANGED procVars

NextParser ==
  \/ CallParseRequest
  \/ TakeResult

SpecParser == InitParser /\ [][NextParser]_vars

\* ------------------------------------------------ fetcher.ts: GitHub's API

\* The MAX_ZIP_BYTES setting of the environment (fetcher.ts 22-24).
MaxZipBytes == 4

\* What a fetch comes back with: the status of the response, or 0 when the
\* fetch itself fails and rejects.
FetchOutcomes == {200, 404, 500, 0}

\* The thrown errors of types.ts 79-100 and the rejection of a failed fetch.
RepoNotFoundError(owner, repo) ==
  [ok |-> FALSE, error |-> "RepoNotFoundError",
   message |-> <<"R", "e", "p", "o", "s", "i", "t", "o", "r", "y", " ">> \o owner \o <<"/">> \o repo \o <<" ", "n", "o", "t", " ", "f", "o", "u", "n", "d", " ", "o", "r", " ", "i", "s", " ", "p", "r", "i", "v", "a", "t", "e", ".">>]
GitHubApiError(status) ==
  [ok |-> FALSE, error |-> "GitHubApiError", status |-> status,
   message |-> <<"G", "i", "t", "H", "u", "b", " ", "A", "P", "I", " ", "r", "e", "t", "u", "r", "n", "e", "d", " ">> \o Dec(status)]
ZipTooLargeError(limit) ==
  [ok |-> FALSE, error |-> "ZipTooLargeError",
   message |-> <<"R", "e", "p", "o", "s", "i", "t", "o", "r", "y", " ", "a", "r", "c", "h", "i", "v", "e", " ", "e", "x", "c", "e", "e", "d", "s", " ">>
                 \o Dec((2 * limit + 1048576) \div (2 * 1048576))
                 \o <<" ", "M", "B", " ", "l", "i", "m", "i", "t", ".", " ", "U", "s", "e", " ", "?", "p", "a", "t", "h", "=", " ", "t", "o", " ", "t", "a", "r", "g", "e", "t", " ", "a", " ", "s", "u", "b", "d", "i", "r", "e", "c", "t", "o", "r", "y", ".">>]
FetchFailed == [ok |-> FALSE, error |-> "TypeError", message |-> <<"f", "e", "t", "c", "h", " ", "f", "a", "i", "l", "e", "d">>]
UnzipFailed == [ok |-> FALSE, error |-> "Error", message |-> <<"i", "n", "v", "a", "l", "i", "d", " ", "z", "i", "p", " ", "d", "a", "t", "a">>]

\* The branch the repository names as its default, and the archive GitHub
\* serves for a reference of the repository.
DefaultBranch == <<"m", "a", "i", "n">>
ZipballOf(ref) ==
  IF ref = <<"m", "a", "i", "n">> THEN << EntryAt(<<"r", "/", "a", ".", "t", "s">>), EntryAt(<<"r", "/", "s", "r", "c", "/", "b", ".", "t", "s">>) >>
  ELSE IF ref = <<"v", "1">> THEN << EntryAt(<<"r", "/", "s", "r", "c", "/", "b", ".", "t", "s">>), EntryAt(<<"r", "/", "s", "r", "c", "/", "e", ".", "l", "o", "g">>) >>
  ELSE <<>>

\* GitHub as one request meets it: the outcome of each of the three
\* fetches, the size of the archive in bytes, whether the response to HEAD
\* carries a Content-Length, and whether the bytes are a zip archive.
Upstreams ==
  [ resolve : FetchOutcomes, head : FetchOutcomes, get : FetchOutcomes,
    zipBytes : {MaxZipBytes, MaxZipBytes + 1},
    hasContentLength : BOOLEAN, decodable : BOOLEAN ]

\* Lines 30-47
resolveDefaultRef(owner, repo, up) ==
  IF up.resolve = 0 THEN FetchFailed
  ELSE IF up.resolve = 404 THEN RepoNotFoundError(owner, repo)
  ELSE IF ~(up.resolve \in 200..299) THEN GitHubApiError(up.resolve)
  ELSE [ok |-> TRUE, ref |-> DefaultBranch]

\* Lines 53-84: the Content-Length of the response is the size of the
\* archive when the response carries one.
checkZipSize(owner, repo, ref, up) ==
  LET contentLength == IF up.hasContentLength THEN << up.zipBytes >> ELSE <<>>
  IN IF up.head = 0 THEN FetchFailed
     ELSE IF up.head = 404 THEN RepoNotFoundError(owner, repo)
     ELSE IF ~(up.head \in 200..299) THEN GitHubApiError(up.head)
     ELSE IF contentLength # <<>> /\ contentLength[1] > MaxZipBytes
       THEN ZipTooLargeError(MaxZipBytes)
     ELSE [ok |-> TRUE]

\* Lines 95-122
fetchZipball(owner, repo, ref, up) ==
  IF up.get = 0 THEN FetchFailed
  ELSE IF up.get = 404 THEN RepoNotFoundError(owner, repo)
  ELSE IF ~(up.get \in 200..299) THEN GitHubApiError(up.get)
  ELSE [ok |-> TRUE, data |-> ZipballOf(ref),
        rateLimitRemaining |-> <<"5", "9">>, rateLimitReset |-> <<"1", "7", "0", "0", "0", "0", "0", "0", "0", "0">>]

\* ------------------------------------- the pipeline behind the MCP tool

\* The text of a detail level.
DetailText(detail) ==
  CASE detail = "summary" -> <<"s", "u", "m", "m", "a", "r", "y">>
    [] detail = "structure" -> <<"s", "t", "r", "u", "c", "t", "u", "r", "e">>
    [] detail = "file-list" -> <<"f", "i", "l", "e", "-", "l", "i", "s", "t">>
    [] detail = "full" -> <<"f", "u", "l", "l">>

\* encodeURIComponent on the characters of the model: '/', ':' and the blank
\* are escaped, letters, digits, '.' and '-' are kept.
RECURSIVE encodeURIComponent(_)
encodeURIComponent(s) ==
  IF s = <<>> THEN <<>>
  ELSE (CASE Head(s) = "/" -> <<"%", "2", "F">>
          [] Head(s) = ":" -> <<"%", "3", "A">>
          [] Head(s) = " " -> <<"%", "2", "0">>
          [] OTHER -> << Head(s) >>) \o encodeURIComponent(Tail(s))

\* The decoding of a query value by URLSearchParams: an escape becomes its
\* character and '+' a blank.
RECURSIVE DecodeQueryValue(_)
DecodeQueryValue(s) ==
  IF s = <<>> THEN <<>>
  ELSE IF Len(s) >= 3 /\ SubSeq(s, 1, 3) = <<"%", "2", "F">> THEN <<"/">> \o DecodeQueryValue(SliceFrom(s, 3))
  ELSE IF Len(s) >= 3 /\ SubSeq(s, 1, 3) = <<"%", "3", "A">> THEN <<":">> \o DecodeQueryValue(SliceFrom(s, 3))
  ELSE IF Len(s) >= 3 /\ SubSeq(s, 1, 3) = <<"%", "2", "0">> THEN <<" ">> \o DecodeQueryValue(SliceFrom(s, 3))
  ELSE IF Head(s) = "+" THEN <<" ">> \o DecodeQueryValue(Tail(s))
  ELSE << Head(s) >> \o DecodeQueryValue(Tail(s))

\* decompressAndProcess on the bytes of a download with the ceilings of the
\* environment, and the metadata filled in (ingest lines 44-57, server.ts
\* 183-197): unzipSync throws on bytes that are no archive.
ProcessZip(data, up, parsed, ref, detail) ==
  IF ~up.decodable THEN UnzipFailed
  ELSE LET opts == [ subpath |-> IF parsed.path = <<>> THEN <<>> ELSE parsed.path[1],
                     detail |-> detail,
                     maxOutputBytes |-> MaxOutputBytes,
                     maxFileCount |-> MaxFileCount ]
           res == RunAlone(Invocation(data, opts)).result
       IN [ ok |-> TRUE,
            result |-> [res EXCEPT !.owner = parsed.owner, !.repo = parsed.repo,
                                   !.repoName = parsed.owner \o <<"/">> \o parsed.repo,
                                   !.ref = ref] ]

\* The value of f at a value that is computed once.
Bind(value, f(_)) == CHOOSE y \in { f(x) : x \in {value} } : TRUE

\* Ingest lines 22-30: the URL handed to parseRequest is the service's own
\* URL with the GitHub URL appended, or, for a text that does not start
\* with http, the canonical form with the text as its repo parameter.
urlToParse(githubUrl, detail) ==
  IF StartsWith(githubUrl, <<"h", "t", "t", "p", "s", ":", "/", "/", "g", "i", "t", "h", "u", "b", ".", "c", "o", "m", "/">>)
  THEN [pathname |-> <<"/">> \o githubUrl, params |-> <<>>]
  ELSE IF ~StartsWith(githubUrl, <<"h", "t", "t", "p">>)
  THEN [pathname |-> <<"/", "i", "n", "g", "e", "s", "t">>,
        params |-> << Param(<<"r", "e", "p", "o">>, DecodeQueryValue(encodeURIComponent(githubUrl))),
                      Param(<<"d", "e", "t", "a", "i", "l">>, DetailText(detail)) >>]
  ELSE [pathname |-> <<"/">> \o githubUrl, params |-> <<>>]

\* Ingest lines 16-60: parse, resolve the reference, check the size,
\* download, process and render; the first error thrown ends the call.
ingestFromUrl(githubUrl, detail, up) ==
  Bind(parseRequest(urlToParse(githubUrl, detail)), LAMBDA parsed :
    IF ~parsed.ok THEN parsed
    ELSE Bind(IF parsed.ref = <<>> \/ parsed.ref[1] = <<>>
              THEN resolveDefaultRef(parsed.owner, parsed.repo, up)
              ELSE [ok |-> TRUE, ref |-> parsed.ref[1]], LAMBDA resolved :
      IF ~resolved.ok THEN resolved
      ELSE Bind(checkZipSize(parsed.owner, parsed.repo, resolved.ref, up), LAMBDA sized :
        IF ~sized.ok THEN sized
        ELSE Bind(fetchZipball(parsed.owner, parsed.repo, resolved.ref, up), LAMBDA fetched :
          IF ~fetched.ok THEN fetched
          ELSE Bind(ProcessZip(fetched.data, up, parsed, resolved.ref, detail), LAMBDA processed :
            IF ~processed.ok THEN processed
            ELSE [ok |-> TRUE, markdown |-> formatOutput(processed.result, detail)])))))

\* server.ts 47-58: the tool returns the Markdown, or the message of the
\* error as a text marked isError.
ingest_repo(url, detail, up) ==
  Bind(ingestFromUrl(url, detail, up), LAMBDA outcome :
    IF outcome.ok THEN [isError |-> FALSE, text |-> outcome.markdown]
    ELSE [isError |-> TRUE, text |-> <<"E", "r", "r", "o", "r", ":", " ">> \o outcome.message])

\* The url arguments of the tool: the URL and the shorthand of a
\* repository, of a reference, and of a subdirectory at a reference; a URL
\* of another host; a text without a '/'.
ToolUrls ==
  { <<"h", "t", "t", "p", "s", ":", "/", "/", "g", "i", "t", "h", "u", "b", ".", "c", "o", "m", "/", "o", "/", "r">>, <<"o", "/", "r">>,
    <<"h", "t", "t", "p", "s", ":", "/", "/", "g", "i", "t", "h", "u", "b", ".", "c", "o", "m", "/", "o", "/", "r", "/", "t", "r", "e", "e", "/", "v", "1">>, <<"o", "/", "r", "/", "t", "r", "e", "e", "/", "v", "1">>,
    <<"h", "t", "t", "p", "s", ":", "/", "/", "g", "i", "t", "h", "u", "b", ".", "c", "o", "m", "/", "o", "/", "r", "/", "t", "r", "e", "e", "/", "v", "1", "/", "s", "r", "c">>, <<"o", "/", "r", "/", "t", "r", "e", "e", "/", "v", "1", "/", "s", "r", "c">>,
    <<"h", "t", "t", "p", "s", ":", "/", "/", "g", "i", "t", "h", "u", "b", ".", "c", "o", "m", "/", "o", "/", "r", "/", "t", "r", "e", "e", "/", "m", "a", "i", "n", "/", "s", "r", "c">>, <<"o", "/", "r", "/", "t", "r", "e", "e", "/", "m", "a", "i", "n", "/", "s", "r", "c">>,
    <<"h", "t", "t", "p", "s", ":", "/", "/", "g", "i", "t", "l", "a", "b", ".", "c", "o", "m", "/", "o", "/", "r">>, <<"o">> }

\* GitHub as a call of the tool meets it: at most one of the three fetches
\* goes wrong.
ToolUpstreams ==
  { up \in Upstreams :
      Cardinality({ f \in {"resolve", "head", "get"} : up[f] # 200 }) <= 1 }

\* server.ts 20-59: the ingest_repo tool is called.
CallIngestRepo ==
  /\ pc = "idle"
  /\ call.fn = "none"
  /\ \E url \in ToolUrls, detail \in DetailLevels, up \in ToolUpstreams :
       call' = [fn |-> "ingest_repo", url |-> url, detail |-> detail, upstream |-> up,
                result |-> ingest_repo(url, detail, up)]
  /\ UNCHANGED procVars

NextTool ==
  \/ CallIngestRepo
  \/ TakeResult

SpecTool == InitFilter /\ [][NextTool]_vars

\* ------------------------------------------ server.ts: handleIngest

\* The requests one behaviour handles, one after the other.
MaxRequests == 2

\* The requests: the canonical form at the default level, at another level,
\* with no-cache, with the default branch named and with a reference and a
\* path; the URL-appended form of the latter; a request without repo.
HandlerRequests ==
  { [pathname |-> <<"/", "i", "n", "g", "e", "s", "t">>, params |-> << Param(<<"r", "e", "p", "o">>, <<"o", "/", "r">>) >>],
    [pathname |-> <<"/", "i", "n", "g", "e", "s", "t">>, params |-> << Param(<<"r", "e", "p", "o">>, <<"o", "/", "r">>), Param(<<"d", "e", "t", "a", "i", "l">>, <<"s", "u", "m", "m", "a", "r", "y">>) >>],
    [pathname |-> <<"/", "i", "n", "g", "e", "s", "t">>, params |-> << Param(<<"r", "e", "p", "o">>, <<"o", "/", "r">>), Param(<<"d", "e", "t", "a", "i", "l">>, <<"s", "u", "m", "m", "a", "r", "y">>),
                                            Param(<<"n", "o", "-", "c", "a", "c", "h", "e">>, <<"t", "r", "u", "e">>) >>],
    [pathname |-> <<"/", "i", "n", "g", "e", "s", "t">>, params |-> << Param(<<"r", "e", "p", "o">>, <<"o", "/", "r">>), Param(<<"d", "e", "t", "a", "i", "l">>, <<"s", "u", "m", "m", "a", "r", "y">>),
                                            Param(<<"r", "e", "f">>, <<"m", "a", "i", "n">>) >>],
    [pathname |-> <<"/", "i", "n", "g", "e", "s", "t">>, params |-> << Param(<<"r", "e", "p", "o">>, <<"o", "/", "r">>), Param(<<"r", "e", "f">>, <<"v", "1">>),
                                            Param(<<"p", "a", "t", "h">>, <<"s", "r", "c">>) >>],
    [pathname |-> <<"/", "h", "t", "t", "p", "s", ":", "/", "/", "g", "i", "t", "h", "u", "b", ".", "c", "o", "m", "/", "o", "/", "r", "/", "t", "r", "e", "e", "/", "v", "1", "/", "s", "r", "c">>, params |-> << Param(<<"n", "o", "-", "c", "a", "c", "h", "e">>, <<"t", "r", "u", "e">>) >>],
    [pathname |-> <<"/", "i", "n", "g", "e", "s", "t">>, params |-> << Param(<<"r", "e", "f">>, <<"m", "a", "i", "n">>) >>] }

\* The level a detail text names.
DetailOf(text) == CHOOSE d \in DetailLevels : DetailText(d) = text

\* JSON.stringify of a string: quoted, with quotes, backslashes and
\* newlines escaped.
RECURSIVE JsonEscape(_)
JsonEscape(s) ==
  IF s = <<>> THEN <<>>
  ELSE (CASE Head(s) = "\"" -> <<"\\", "\"">>
          [] Head(s) = "\\" -> <<"\\", "\\">>
          [] Head(s) = "\n" -> <<"\\", "n">>
          [] OTHER -> << Head(s) >>) \o JsonEscape(Tail(s))
JsonString(s) == <<"\"">> \o JsonEscape(s) \o <<"\"">>

\* Lines 101-106
jsonError(status, message) ==
  [ status |-> status,
    headers |-> ("Content-Type" :> <<"a", "p", "p", "l", "i", "c", "a", "t", "i", "o", "n", "/", "j", "s", "o", "n">>),
    body |-> <<"{">> \o JsonString(<<"e", "r", "r", "o", "r">>) \o <<":">> \o JsonString(message) \o <<"}">> ]

\* Lines 134-146: retryAfter is the limiter's or 60.
rateLimitResponse(retryAfter) ==
  [ status |-> 429,
    headers |-> ("Content-Type" :> <<"a", "p", "p", "l", "i", "c", "a", "t", "i", "o", "n", "/", "j", "s", "o", "n">>) @@ ("Retry-After" :> Dec(retryAfter)),
    body |-> <<"{">> \o JsonString(<<"e", "r", "r", "o", "r">>) \o <<":">> \o JsonString(<<"R", "a", "t", "e", " ", "l", "i", "m", "i", "t", " ", "e", "x", "c", "e", "e", "d", "e", "d">>) \o <<",">>
               \o JsonString(<<"r", "e", "t", "r", "y", "A", "f", "t", "e", "r">>) \o <<":">> \o Dec(retryAfter) \o <<"}">> ]

\* ratelimit.ts 12-23: the binding lets the request through, turns it away,
\* or is unavailable and throws.
RateLimiterOutcomes == {"success", "limited", "unavailable"}
checkRateLimit(outcome) ==
  IF outcome = "limited" THEN [allowed |-> FALSE, retryAfter |-> <<60>>]
  ELSE [allowed |-> TRUE, retryAfter |-> <<>>]

\* A catch block that answers the errors it knows and rethrows the others.
CatchErrorKnownOnly(err) ==
  IF err.error = "RepoNotFoundError" THEN jsonError(404, <<"R", "e", "p", "o", "s", "i", "t", "o", "r", "y", " ", "n", "o", "t", " ", "f", "o", "u", "n", "d", " ", "o", "r", " ", "i", "s", " ", "p", "r", "i", "v", "a", "t", "e">>)
  ELSE IF err.error = "ZipTooLargeError" THEN jsonError(413, err.message)
  ELSE IF err.error = "GitHubApiError" THEN jsonError(502, <<"G", "i", "t", "H", "u", "b", " ", "A", "P", "I", " ", "r", "e", "t", "u", "r", "n", "e", "d", " ">> \o Dec(err.status))
  ELSE [status |-> 0, headers |-> <<>>, body |-> err.message]

\* Lines 270-283
CatchError(err) ==
  IF err.error = "RepoNotFoundError" THEN jsonError(404, <<"R", "e", "p", "o", "s", "i", "t", "o", "r", "y", " ", "n", "o", "t", " ", "f", "o", "u", "n", "d", " ", "o", "r", " ", "i", "s", " ", "p", "r", "i", "v", "a", "t", "e">>)
  ELSE IF err.error = "ZipTooLargeError" THEN jsonError(413, err.message)
  ELSE IF err.error = "GitHubApiError" THEN jsonError(502, <<"G", "i", "t", "H", "u", "b", " ", "A", "P", "I", " ", "r", "e", "t", "u", "r", "n", "e", "d", " ">> \o Dec(err.status))
  ELSE jsonError(500, <<"I", "n", "t", "e", "r", "n", "a", "l", " ", "s", "e", "r", "v", "e", "r", " ", "e", "r", "r", "o", "r">>)

\* URLSearchParams.toString on the characters of the model.
RECURSIVE FormEncode(_)
FormEncode(s) ==
  IF s = <<>> THEN <<>>
  ELSE (CASE Head(s) = "/" -> <<"%", "2", "F">>
          [] Head(s) = ":" -> <<"%", "3", "A">>
          [] Head(s) = " " -> <<"+">>
          [] OTHER -> << Head(s) >>) \o FormEncode(Tail(s))

\* A cache key that also tells requests with no-cache from the others.
buildCacheKeyWithNoCache(parsed) ==
  <<"h", "t", "t", "p", "s", ":", "/", "/", "g", "i", "t", "p", "r", "i", "s", "m", ".", "c", "l", "o", "u", "d", "e", "m", "o", ".", "o", "r", "g", "/", "c", "a", "c", "h", "e", "/", "?">>
    \o Join( << <<"o", "w", "n", "e", "r", "=">> \o FormEncode(parsed.owner), <<"r", "e", "p", "o", "=">> \o FormEncode(parsed.repo) >>
             \o (IF parsed.ref # <<>> /\ parsed.ref[1] # <<>>
                 THEN << <<"r", "e", "f", "=">> \o FormEncode(parsed.ref[1]) >> ELSE <<>>)
             \o (IF parsed.path # <<>> /\ parsed.path[1] # <<>>
                 THEN << <<"p", "a", "t", "h", "=">> \o FormEncode(parsed.path[1]) >> ELSE <<>>)
             \o << <<"d", "e", "t", "a", "i", "l", "=">> \o FormEncode(parsed.detail) >>
             \o (IF parsed.noCache THEN << <<"n", "o", "-", "c", "a", "c", "h", "e", "=", "t", "r", "u", "e">> >> ELSE <<>>), "&")

\* cache.ts 9-19: the URL of the key.
buildCacheKey(parsed) ==
  <<"h", "t", "t", "p", "s", ":", "/", "/", "g", "i", "t", "p", "r", "i", "s", "m", ".", "c", "l", "o", "u", "d", "e", "m", "o", ".", "o", "r", "g", "/", "c", "a", "c", "h", "e", "/", "?">>
    \o Join( << <<"o", "w", "n", "e", "r", "=">> \o FormEncode(parsed.owner), <<"r", "e", "p", "o", "=">> \o FormEncode(parsed.repo) >>
             \o (IF parsed.ref # <<>> /\ parsed.ref[1] # <<>>
                 THEN << <<"r", "e", "f", "=">> \o FormEncode(parsed.ref[1]) >> ELSE <<>>)
             \o (IF parsed.path # <<>> /\ parsed.path[1] # <<>>
                 THEN << <<"p", "a", "t", "h", "=">> \o FormEncode(parsed.path[1]) >> ELSE <<>>)
             \o << <<"d", "e", "t", "a", "i", "l", "=">> \o FormEncode(parsed.detail) >>, "&")

\* cache.ts 25-34: the stored response of the key, as a sequence of at most
\* one; none when the Cache API is unavailable and throws.
getCached(store, cacheKey) ==
  IF ~store.available THEN <<>>
  ELSE LET hits == { e \in store.entries : e.key = cacheKey }
       IN IF hits = {} THEN <<>> ELSE << (CHOOSE e \in hits : TRUE).response >>

\* cache.ts 40-57: the response is stored under the key with the
\* Cache-Control of the time to live, in place of what the key held; an
\* unavailable Cache API is ignored.
putCache(store, cacheKey, response) ==
  IF ~store.available THEN store
  ELSE [store EXCEPT !.entries =
          { e \in @ : e.key # cacheKey }
            \cup { [ key |-> cacheKey,
                     response |-> [response EXCEPT !.headers =
                                     ("Cache-Control" :> <<"p", "u", "b", "l", "i", "c", ",", " ", "m", "a", "x", "-", "a", "g", "e", "=", "3", "6", "0", "0">>) @@ @] ] }]

\* headers.ts 14-43
buildResponseHeaders(res, rateLimitRemaining, rateLimitReset, cacheStatus) ==
  (IF rateLimitReset # <<>> THEN ("X-RateLimit-Reset" :> rateLimitReset) ELSE <<>>)
  @@ (IF rateLimitRemaining # <<>> THEN ("X-RateLimit-Remaining" :> rateLimitRemaining) ELSE <<>>)
  @@ [ n \in { "Content-Type", "X-Repo", "X-Ref", "X-File-Count", "X-Total-Size",
               "X-Truncated", "X-Cache" } |->
         CASE n = "Content-Type" -> <<"t", "e", "x", "t", "/", "m", "a", "r", "k", "d", "o", "w", "n", ";", " ", "c", "h", "a", "r", "s", "e", "t", "=", "u", "t", "f", "-", "8">>
           [] n = "X-Repo" -> res.repoName
           [] n = "X-Ref" -> res.ref
           [] n = "X-File-Count" -> Dec(res.fileCount)
           [] n = "X-Total-Size" -> Dec(res.totalSize)
           [] n = "X-Truncated" -> (IF res.truncated THEN <<"t", "r", "u", "e">> ELSE <<"f", "a", "l", "s", "e">>)
           [] n = "X-Cache" -> cacheStatus ]

\* Lines 224-245: the text a reader of the streamed body receives.
StreamedBody(res) ==
  StreamHeader(res)
    \o Concat([ i \in 1..Len(res.files) |-> formatFileBlock(res.files[i]) ])
    \o (IF HasNotice(res) THEN StreamNotice(res) ELSE <<>>)

\* A handler that looks into the cache whatever the request says.
ConsultsCacheAlways(parsed) == TRUE

\* Line 152
ConsultsCache(parsed) == ~parsed.noCache

\* The steps taken with the rate limiter asked after the cache.
NextStepCacheFirst(step, parsed) ==
  CASE step = "parse" -> "cache"
    [] step = "cache" -> "ratelimit"
    [] step = "ratelimit" ->
         IF parsed.ref = <<>> \/ parsed.ref[1] = <<>> THEN "resolve" ELSE "size"
    [] step = "resolve" -> "size"
    [] step = "size" -> "download"
    [] step = "download" -> "process"

\* Lines 118-191: the step that follows a step that did not end the
\* request.
NextStep(step, parsed) ==
  LET afterCache == IF parsed.ref = <<>> \/ parsed.ref[1] = <<>> THEN "resolve" ELSE "size"
  IN CASE step = "parse" -> "ratelimit"
       [] step = "ratelimit" -> IF ConsultsCache(parsed) THEN "cache" ELSE afterCache
       [] step = "cache" -> afterCache
       [] step = "resolve" -> "size"
       [] step = "size" -> "download"
       [] step = "download" -> "process"

\* No request has arrived; the Cache API is available or not.  The handler
\* records, beside its locals, the calls it made in their order (log), the
\* error that ended the request (failure), the size of the archive and
\* whether the response to HEAD stated it, and for every call of putCache
\* the key and what the request asked for (puts).
InitHandler ==
  /\ unzipped = <<>>
  /\ options = [subpath |-> <<>>, detail |-> "full", maxOutputBytes |-> 0, maxFileCount |-> 0]
  /\ pc = "handler"
  /\ prefix = <<>>
  /\ matcher = NoMatcher
  /\ idx = 1
  /\ files = <<>>
  /\ totalSize = 0
  /\ truncated = FALSE
  /\ truncationMessage = NoMessage
  /\ totalUnfiltered = 0
  /\ result = NoResult
  /\ admitted = <<>>
  /\ stopped = "none"
  /\ stream = NoStream
  /\ inv = NoInvocations
  /\ call = NoCall
  /\ handler = [pc |-> "idle", served |-> 0, puts |-> {}]
  /\ cache \in [available : BOOLEAN, entries : {{}}]

handlerFrame == <<unzipped, options, pc, prefix, matcher, idx, files, totalSize, truncated,
                  truncationMessage, totalUnfiltered, result, admitted, stopped, call, stream,
                  inv>>

\* The five fields of a descriptor that name what is asked for.
Asked(parsed) ==
  [ owner |-> parsed.owner, repo |-> parsed.repo,
    ref |-> IF parsed.ref # <<>> /\ parsed.ref[1] # <<>> THEN parsed.ref ELSE <<>>,
    path |-> IF parsed.path # <<>> /\ parsed.path[1] # <<>> THEN parsed.path ELSE <<>>,
    detail |-> parsed.detail ]

\* Line 111: handleIngest is called with a request.
Receive ==
  /\ pc = "handler"
  /\ handler.pc \in {"idle", "done"}
  /\ handler.served < MaxRequests
  /\ \E r \in HandlerRequests :
       handler' = [ pc |-> "parse", served |-> handler.served + 1, puts |-> handler.puts,
                    request |-> r,
                    parsed |-> ParseError(<<>>), cacheKey |-> <<>>, ref |-> <<>>,
                    zipBytes |-> 0, lengthStated |-> FALSE, zipData |-> <<>>,
                    log |-> <<>>, failure |-> "none",
                    response |-> [status |-> 0, headers |-> <<>>, body |-> <<>>] ]
  /\ UNCHANGED <<cache, handlerFrame>>

\* Lines 118-129
ParseStep ==
  /\ handler.pc = "parse"
  /\ LET parsed == parseRequest(handler.request)
         logged == [handler EXCEPT !.log = Append(@, "parseRequest"), !.parsed = parsed]
     IN handler' = IF ~parsed.ok
                   THEN [logged EXCEPT !.pc = "done", !.failure = parsed.error,
                                       !.response = jsonError(400, parsed.message)]
                   ELSE [logged EXCEPT !.pc = NextStep("parse", parsed)]
  /\ UNCHANGED <<cache, handlerFrame>>

\* Lines 131-149
RateLimitStep ==
  /\ handler.pc = "ratelimit"
  /\ \E outcome \in RateLimiterOutcomes :
       LET rateLimitResult == checkRateLimit(outcome)
           logged == [handler EXCEPT !.log = Append(@, "checkRateLimit")]
       IN handler' =
            IF ~rateLimitResult.allowed
            THEN [logged EXCEPT !.pc = "done", !.failure = "RateLimited",
                                !.response = rateLimitResponse(
                                   IF rateLimitResult.retryAfter = <<>> THEN 60
                                   ELSE rateLimitResult.retryAfter[1])]
            ELSE [logged EXCEPT !.pc = NextStep("ratelimit", handler.parsed),
                                !.cacheKey = buildCacheKey(handler.parsed)]
  /\ UNCHANGED <<cache, handlerFrame>>

\* Lines 152-162
CacheStep ==
  /\ handler.pc = "cache"
  /\ LET cacheKey == buildCacheKey(handler.parsed)
         cached == getCached(cache, cacheKey)
         logged == [handler EXCEPT !.log = Append(@, "getCached"), !.cacheKey = cacheKey]
     IN handler' =
          IF cached # <<>>
          THEN [logged EXCEPT !.pc = "done",
                              !.response = [cached[1] EXCEPT !.headers =
                                              ("X-Cache" :> <<"H", "I", "T">>) @@ @]]
          ELSE [logged EXCEPT !.pc = NextStep("cache", handler.parsed)]
  /\ UNCHANGED <<cache, handlerFrame>>

\* Lines 166-169 and 270-283
ResolveStep ==
  /\ handler.pc = "resolve"
  /\ \E o \in FetchOutcomes :
       LET resolved == resolveDefaultRef(handler.parsed.owner, handler.parsed.repo, [resolve |-> o])
           logged == [handler EXCEPT !.log = Append(@, "resolveDefaultRef")]
       IN handler' = IF ~resolved.ok
                     THEN [logged EXCEPT !.pc = "done", !.failure = resolved.error,
                                         !.response = CatchError(resolved)]
                     ELSE [logged EXCEPT !.pc = NextStep("resolve", handler.parsed),
                                         !.ref = << resolved.ref >>]
  /\ UNCHANGED <<cache, handlerFrame>>

\* The reference of the request: the resolved one or the given one.
RefOf(h) == IF h.ref # <<>> THEN h.ref[1] ELSE h.parsed.ref[1]

\* Lines 171-172 and 270-283: the archive has some size, which the
\* response to HEAD states or not.
SizeStep ==
  /\ handler.pc = "size"
  /\ \E o \in FetchOutcomes, bytes \in {MaxZipBytes, MaxZipBytes + 1}, stated \in BOOLEAN :
       LET sized == checkZipSize(handler.parsed.owner, handler.parsed.repo, RefOf(handler),
                                 [head |-> o, zipBytes |-> bytes, hasContentLength |-> stated])
           logged == [handler EXCEPT !.log = Append(@, "checkZipSize"), !.zipBytes = bytes,
                                     !.lengthStated = stated, !.ref = << RefOf(handler) >>]
       IN handler' = IF ~sized.ok
                     THEN [logged EXCEPT !.pc = "done", !.failure = sized.error,
                                         !.response = CatchError(sized)]
                     ELSE [logged EXCEPT !.pc = NextStep("size", handler.parsed)]
  /\ UNCHANGED <<cache, handlerFrame>>

\* Lines 174-180 and 270-283
DownloadStep ==
  /\ handler.pc = "download"
  /\ \E o \in FetchOutcomes :
       LET fetched == fetchZipball(handler.parsed.owner, handler.parsed.repo, RefOf(handler),
                                   [get |-> o])
           logged == [handler EXCEPT !.log = Append(@, "fetchZipball")]
       IN handler' = IF ~fetched.ok
                     THEN [logged EXCEPT !.pc = "done", !.failure = fetched.error,
                                         !.response = CatchError(fetched)]
                     ELSE [logged EXCEPT !.pc = NextStep("download", handler.parsed),
                                         !.zipData = fetched.data]
  /\ UNCHANGED <<cache, handlerFrame>>

\* Lines 182-283: the archive is processed, the response is built and
\* handed to putCache, as the text rendered at once for the level full.
ProcessStep ==
  /\ handler.pc = "process"
  /\ \E decodable \in BOOLEAN :
       LET detail == DetailOf(handler.parsed.detail)
           processed == ProcessZip(handler.zipData, [decodable |-> decodable], handler.parsed,
                                   RefOf(handler), detail)
           logged == [handler EXCEPT !.log = Append(@, "decompressAndProcess")]
           headers == buildResponseHeaders(processed.result, <<"5", "9">>, <<"1", "7", "0", "0", "0", "0", "0", "0", "0", "0">>, <<"M", "I", "S", "S">>)
           response == [ status |-> 200, headers |-> headers,
                         body |-> IF detail = "full" THEN StreamedBody(processed.result)
                                  ELSE formatOutput(processed.result, detail) ]
           cacheable == [ status |-> 200, headers |-> headers,
                          body |-> formatOutput(processed.result, detail) ]
       IN IF ~processed.ok
          THEN /\ handler' = [logged EXCEPT !.pc = "done", !.failure = processed.error,
                                            !.response = CatchError(processed)]
               /\ UNCHANGED cache
          ELSE /\ handler' = [logged EXCEPT !.pc = "done", !.response = response,
                                            !.log = Append(@, "putCache"),
                                            !.puts = @ \cup { [ key |-> handler.cacheKey,
                                                                asked |-> Asked(handler.parsed) ] }]
               /\ cache' = putCache(cache, handler.cacheKey, cacheable)
  /\ UNCHANGED handlerFrame

\* cache.ts 51: a stored response outlives its max-age no longer.
Expire ==
  /\ pc = "handler"
  /\ handler.pc \in {"idle", "done"}
  /\ \E e \in cache.entries : cache' = [cache EXCEPT !.entries = @ \ {e}]
  /\ UNCHANGED <<handler, handlerFrame>>

NextHandler ==
  \/ Receive
  \/ ParseStep
  \/ RateLimitStep
  \/ CacheStep
  \/ ResolveStep
  \/ SizeStep
  \/ DownloadStep
  \/ ProcessStep
  \/ Expire

SpecHandler == InitHandler /\ [][NextHandler]_vars

\* ------------------------- decompressAndProcess on archives with rule files

\* The entries of archives with rule files: the top-level directory, a
\* root .gitignore, a .gitignore in a subdirectory whose rule names the
\* source files, source files in and outside the subdirectory, and a file
\* the root rules exclude.
RuleFileEntries ==
  { TextFile(<<"r", "/">>, <<>>),
    TextFile(<<"r", "/", ".", "g", "i", "t", "i", "g", "n", "o", "r", "e">>, <<"*", ".", "l", "o", "g", "\n", "!", "*", ".", "j", "s", "\n">>),
    TextFile(<<"r", "/", "s", "r", "c", "/", ".", "g", "i", "t", "i", "g", "n", "o", "r", "e">>, <<"*", ".", "t", "s", "\n">>),
    TextFile(<<"r", "/", "a", ".", "t", "s">>, <<"a", "\n">>),
    TextFile(<<"r", "/", "s", "r", "c", "/", "b", ".", "t", "s">>, <<"b", "\n">>),
    TextFile(<<"r", "/", "s", "r", "c", "/", "e", ".", "l", "o", "g">>, <<"e">>) }

RuleFileArchives ==
  { a \in UNION { [1..n -> RuleFileEntries] : n \in 0..MaxEntries } :
      \A i, j \in 1..Len(a) : i # j => a[i].path # a[j].path }

RuleFileOptions ==
  [ subpath : {<<>>, <<"s", "r", "c">>, <<"a", ".", "t", "s">>}, detail : {"summary", "full"},
    maxOutputBytes : {MaxOutputBytes}, maxFileCount : {1, MaxFileCount} ]

\* decompressAndProcess is called with such an archive.
InitRuleFiles ==
  /\ unzipped \in RuleFileArchives
  /\ options \in RuleFileOptions
  /\ pc = "prefix"
  /\ Locals
  /\ call = NoCall

SpecRuleFiles == InitRuleFiles /\ [][Next]_vars
\* ------------------------------- what a call is given, for the properties

RECURSIVE Ascending(_)
Ascending(S) == IF S = {} THEN <<>> ELSE <<Min(S)>> \o Ascending(S \ {Min(S)})

IsPrefixOf(s, t) == Len(s) <= Len(t) /\ s = SubSeq(t, 1, Len(s))
Range(s) == { s[i] : i \in 1..Len(s) }

\* The archive of the call as decompressAndProcess reads it: the stripped
\* path of every entry, the file entries before any filtering, and the
\* admissible entries (those that pass the static rules, the .gitignore
\* matcher, subpath scoping and binary sniffing) in enumeration order.
Given ==
  LET pfx == TopLevelPrefix(unzipped)
      m == RootMatcher(unzipped, pfx)
      path == [i \in 1..Len(unzipped) |-> StripPrefix(unzipped[i].path, pfx)]
      fileEntries == { i \in 1..Len(unzipped) : IsFileEntry(path[i]) }
      ok == { i \in fileEntries :
                /\ ~shouldIgnorePath(path[i])
                /\ ~(m.present /\ gitignoreMatcher(m.rules, path[i]))
                /\ InSubpath(path[i], options.subpath)
                /\ ~isBinaryContent(unzipped[i]) }
  IN [ path |-> path, fileEntries |-> fileEntries, admissible |-> Ascending(ok),
       static |-> { i \in fileEntries : shouldIgnorePath(path[i]) } ]

\* The bytes of the first n entries of the sequence adm of archive positions.
RECURSIVE SizeOfFirst(_, _)
SizeOfFirst(adm, n) == IF n = 0 THEN 0 ELSE SizeOfFirst(adm, n - 1) + unzipped[adm[n]].size

\* files holds the entries at the positions in admitted, paths scoped.
FilesAreAdmitted(g) ==
  /\ Len(files) = Len(admitted)
  /\ \A k \in 1..Len(files) :
       /\ files[k].path = ScopedPath(g.path[admitted[k]], options.subpath)
       /\ files[k].size = unzipped[admitted[k]].size

\* The first n entries of adm are within the ceilings that apply at detail d.
Fits(adm, n, d) ==
  /\ n <= options.maxFileCount
  /\ d = "full" => SizeOfFirst(adm, n) <= options.maxOutputBytes

\* The longest run of admissible entries that stays within the ceilings.
ExpectedCount(adm, d) ==
  Max({ n \in 0..Len(adm) : \A m \in 0..n : Fits(adm, m, d) })

\* -------------------------------------------------------------- properties

\* C1, as stated: the result never holds more than maxFileCount files;
\* skipped entries never count toward the ceiling; and whenever the archive
\* holds more than maxFileCount admissible entries, the result holds exactly
\* the first maxFileCount of them in archive order and truncated is true.
C1_AsStated ==
  /\ Len(files) <= options.maxFileCount
  /\ pc = "done" =>
       LET g == Given
       IN Len(g.admissible) > options.maxFileCount =>
            /\ admitted = SubSeq(g.admissible, 1, options.maxFileCount)
            /\ FilesAreAdmitted(g)
            /\ result.files = files
            /\ result.truncated

\* C1, amended: the result never holds more than maxFileCount files and is
\* always a run of the first admissible entries in archive order; whenever
\* the archive holds more than maxFileCount admissible entries the result is
\* truncated; and it holds exactly the first maxFileCount of them unless
\* detail is full and those total more than maxOutputBytes.
C1_FileCountCeiling ==
  /\ Len(files) <= options.maxFileCount
  /\ pc \in {"loop", "finish", "done"} =>
       LET g == Given
       IN /\ IsPrefixOf(admitted, g.admissible)
          /\ FilesAreAdmitted(g)
          /\ (pc = "done" /\ Len(g.admissible) > options.maxFileCount) =>
               /\ result.truncated
               /\ result.files = files
               /\ (\/ options.detail # "full"
                   \/ SizeOfFirst(g.admissible, options.maxFileCount) <= options.maxOutputBytes)
                    => admitted = SubSeq(g.admissible, 1, options.maxFileCount)

\* C1 witness: the file-count ceiling stopped a full-detail run after two
\* files, with a skipped file entry before the entry it stopped at.
C1_Witness ==
  /\ pc = "done"
  /\ options.detail = "full"
  /\ stopped = "count"
  /\ Len(result.files) = options.maxFileCount
  /\ options.maxFileCount >= 1
  /\ \E i \in 1..(idx - 1) : i \in Given.fileEntries /\ i \notin Range(Given.admissible)

\* C2: at detail full the admitted bytes never exceed maxOutputBytes and
\* processing stops, truncated, at the first admissible entry that would
\* push them over; at the other detail levels maxOutputBytes never stops the
\* loop and the admitted files are those the file-count ceiling alone allows.
C2_ByteCeiling ==
  /\ options.detail = "full" => SumSizes(files) <= options.maxOutputBytes
  /\ (pc = "done" /\ options.detail = "full") =>
       LET adm == Given.admissible
           n == Len(admitted)
       IN /\ n = ExpectedCount(adm, "full")
          /\ IsPrefixOf(admitted, adm)
          /\ stopped = "bytes" <=>
               /\ n < Len(adm)
               /\ n < options.maxFileCount
               /\ SizeOfFirst(adm, n + 1) > options.maxOutputBytes
          /\ stopped = "bytes" => (result.truncated /\ idx = adm[n + 1])
  /\ (pc = "done" /\ options.detail # "full") =>
       LET adm == Given.admissible
       IN /\ stopped # "bytes"
          /\ admitted = SubSeq(adm, 1, IF Len(adm) < options.maxFileCount
                                       THEN Len(adm) ELSE options.maxFileCount)
          /\ result.truncated <=> Len(adm) > options.maxFileCount

\* C2 witness: files of equal size, a ceiling between one and two of them:
\* one is admitted and the run stops at the second.
C2_Witness ==
  /\ pc = "done"
  /\ options.detail = "full"
  /\ stopped = "bytes"
  /\ Len(result.files) = 1
  /\ unzipped[idx].size = result.files[1].size
  /\ result.files[1].size < options.maxOutputBytes
  /\ result.truncated

\* C3: reaching a ceiling never fails the call: the loop ends and the result
\* is built; the result is truncated and carries a note exactly when
\* processing stopped at an admissible entry that was not admitted, and is
\* not truncated and carries no note exactly when every admissible entry is
\* in files.
C3_TruncationIsAResult ==
  /\ stopped # "none" => pc \in {"finish", "done"}
  /\ pc = "finish" => ENABLED Return
  /\ pc = "done" =>
       LET g == Given
       IN /\ result.truncated <=> result.truncationMessage.present
          /\ result.truncated <=>
               (stopped # "none" /\ idx \in Range(g.admissible) /\ idx \notin Range(admitted))
          /\ ~result.truncated <=> (Range(g.admissible) \subseteq Range(admitted))
          /\ result.files = files
          /\ FilesAreAdmitted(g)

\* C3 witness: a run stopped by the byte ceiling returned a truncated result
\* with a note.
C3_Witness ==
  /\ pc = "done"
  /\ stopped = "bytes"
  /\ result.truncated
  /\ result.truncationMessage.present

\* C4: when the result is truncated, the note states the number of included
\* files and the total number of file entries of the archive before
\* filtering.
C4_NoteReportsArchiveTotal ==
  (pc = "done" /\ result.truncated) =>
    /\ result.truncationMessage.present
    /\ result.truncationMessage.included = Len(result.files)
    /\ result.truncationMessage.total = Cardinality(Given.fileEntries)

\* C5: in every result, truncated or not, fileCount is the number of files
\* and totalSize is the sum of their sizes.
C5_CountersMatchFiles ==
  /\ totalSize = SumSizes(files)
  /\ pc = "done" =>
       /\ result.fileCount = Len(result.files)
       /\ result.totalSize = SumSizes(result.files)

\* C5 witness: a truncated result of two files.
C5_Witness ==
  /\ pc = "done"
  /\ result.truncated
  /\ Len(result.files) = 2
  /\ result.totalSize > result.files[1].size

\* C10: an entry the static rules exclude is never admitted, whatever the
\* root .gitignore says about it.
C10_StaticExclusionIsFinal ==
  pc \in {"loop", "finish", "done"} =>
    LET g == Given
    IN /\ \A k \in 1..Len(admitted) : admitted[k] \notin g.static
       /\ FilesAreAdmitted(g)
       /\ pc = "done" => result.files = files

\* C10 witness: the archive held a statically excluded file that a negation
\* rule of its .gitignore matches, the matcher does not ignore it, the loop
\* has passed it, and it is not in the result.
C10_Witness ==
  /\ pc = "done"
  /\ matcher.present
  /\ Len(result.files) >= 1
  /\ \E i \in 1..(idx - 1) :
       /\ i \in Given.static
       /\ \E r \in 1..Len(matcher.rules) :
            matcher.rules[r].negate /\ RegexTest(matcher.rules[r].regex, Given.path[i])
       /\ ~gitignoreMatcher(matcher.rules, Given.path[i])
       /\ i \notin Range(admitted)

\* The matcher of a .gitignore that holds the one line was called.
SingleRule(line) ==
  call.fn = "parseGitignore" /\ call.content = line \o <<"\n">>

\* The segments of the path of the call.
CallSegments == Split(call.path, "/")

\* The segments run occur next to one another somewhere in segs.
HasRun(segs, run) ==
  \E i \in 1..(Len(segs) - Len(run) + 1) : SubSeq(segs, i, i + Len(run) - 1) = run

\* C6: the verdict of a compiled .gitignore on a path is that of the last
\* rule, in file order, whose pattern matches the path: ignored when that
\* rule is not a negation, not ignored when it is one or when none matches.
C6_LastMatchingRuleWins ==
  call.fn = "parseGitignore" =>
    LET rules == parseGitignore(call.content)
        hits == { i \in 1..Len(rules) : RegexTest(rules[i].regex, call.path) }
    IN call.result = (hits # {} /\ ~rules[Max(hits)].negate)

\* C6 witness: a negation re-included a path that an earlier rule excluded.
C6_Witness ==
  /\ call.fn = "parseGitignore"
  /\ call.content = <<"*", ".", "l", "o", "g", "\n", "!", "e", "r", "r", "o", "r", ".", "l", "o", "g", "\n">>
  /\ call.path = <<"s", "r", "c", "/", "e", "r", "r", "o", "r", ".", "l", "o", "g">>
  /\ ~call.result

\* C7: a directory-only pattern excludes the named directory and every path
\* beneath it, at any depth when it is not rooted; a rooted pattern matches
\* from the archive root only.
C7_DirectoryAndRootedPatterns ==
  /\ SingleRule(<<"l", "o", "g", "s", "/">>) => (call.result <=> HasRun(CallSegments, <<<<"l", "o", "g", "s">>>>))
  /\ SingleRule(<<"s", "r", "c", "/", "l", "o", "g", "s", "/">>) => (call.result <=> HasRun(CallSegments, <<<<"s", "r", "c">>, <<"l", "o", "g", "s">>>>))
  /\ SingleRule(<<"/", "b", "u", "i", "l", "d">>) => (call.result <=> CallSegments[1] = <<"b", "u", "i", "l", "d">>)

\* C7 witness: '/build' left a build directory below the root alone.
C7_Witness ==
  /\ SingleRule(<<"/", "b", "u", "i", "l", "d">>)
  /\ call.path = <<"s", "r", "c", "/", "b", "u", "i", "l", "d", "/", "a", ".", "t", "m", "p">>
  /\ ~call.result

\* C8: '*' matches within one path segment and never a separator; '**'
\* matches any number of segments, none included: '*.log' excludes the files
\* ending in '.log' at any depth, 'src/*' the entries right under a src
\* directory, and '**/*.tmp' every file ending in '.tmp', at the root too.
C8_Wildcards ==
  LET segs == CallSegments
      last == segs[Len(segs)]
  IN /\ SingleRule(<<"*", ".", "l", "o", "g">>) => (call.result <=> EndsWith(last, <<".", "l", "o", "g">>))
     /\ SingleRule(<<"s", "r", "c", "/", "*">>) => (call.result <=> (Len(segs) >= 2 /\ segs[Len(segs) - 1] = <<"s", "r", "c">>))
     /\ SingleRule(<<"*", "*", "/", "*", ".", "t", "m", "p">>) => (call.result <=> EndsWith(last, <<".", "t", "m", "p">>))

\* C9: shouldIgnorePath excludes every path that has the name of an ignored
\* directory as one of its segments, at whatever depth.
C9_IgnoredDirectoryAtAnyDepth ==
  call.fn = "shouldIgnorePath" =>
    ((\E i \in 1..Len(CallSegments) : CallSegments[i] \in IGNORED_DIRS) => call.result)

\* C8, without the archive root: '*' stays within one segment, and
\* '**/*.tmp' excludes the files ending in '.tmp' that lie in a directory.
C8_StarAndDeepGlobstar ==
  LET segs == CallSegments
      last == segs[Len(segs)]
  IN /\ SingleRule(<<"*", ".", "l", "o", "g">>) => (call.result <=> EndsWith(last, <<".", "l", "o", "g">>))
     /\ SingleRule(<<"s", "r", "c", "/", "*">>) => (call.result <=> (Len(segs) >= 2 /\ segs[Len(segs) - 1] = <<"s", "r", "c">>))
     /\ SingleRule(<<"*", "*", "/", "*", ".", "t", "m", "p">>) => (call.result <=> (Len(segs) >= 2 /\ EndsWith(last, <<".", "t", "m", "p">>)))

\* --------------------------------------------------- isBinaryContent alone

\* C11: isBinaryContent looks at offsets 0..8191 only: it answers binary
\* exactly when the buffer holds a zero byte at an offset of at most 8191,
\* and not binary when the buffer is empty, holds no zero byte, or holds zero
\* bytes at offsets 8192 and beyond only.
C11_SniffsFirst8192Bytes ==
  call.fn = "isBinaryContent" =>
    LET z == call.buffer.firstZero
    IN /\ call.result <=> (z >= 0 /\ z <= 8191)
       /\ call.buffer.size = 0 => ~call.result
       /\ z = -1 => ~call.result
       /\ z >= 8192 => ~call.result

\* C11 witness: the only zero bytes of a buffer lie behind the window and the
\* buffer was reported not binary.
C11_Witness ==
  /\ call.fn = "isBinaryContent"
  /\ call.buffer.size = 10000
  /\ call.buffer.firstZero = 9000
  /\ ~call.result

\* C11 witness of the other side: a zero byte at offset 8191 is seen.
C11_LastOffsetSeen ==
  /\ call.fn = "isBinaryContent"
  /\ call.buffer.firstZero = 8191
  /\ call.result

\* --------------------------------------------------- filterBySubpath alone

\* The members of entries that satisfy keep, in their order, each rewritten
\* by rewrite.
KeepAndRewrite(entries, keep(_), rewrite(_)) ==
  LET kept == SelectSeq(entries, keep)
  IN [ i \in 1..Len(kept) |-> [kept[i] EXCEPT !.path = rewrite(@)] ]

\* C12 as stated: the entries kept are those whose path begins with
\* subpath + '/' or equals subpath, in their order, and each kept path loses
\* that prefix (subpath + '/', or subpath for the entry named as the subpath).
C12_AsStated ==
  (call.fn = "filterBySubpath" /\ call.subpath # <<>>) =>
    LET withSep == call.subpath \o <<"/">>
        keep(f) == StartsWith(f.path, withSep) \/ f.path = call.subpath
        rewrite(p) == IF StartsWith(p, withSep) THEN SliceFrom(p, Len(withSep))
                      ELSE SliceFrom(p, Len(call.subpath))
    IN call.result = KeepAndRewrite(call.files, keep, rewrite)

\* C12: with a non-empty subpath, and prefix being subpath itself when it
\* ends with '/' and subpath + '/' otherwise, filterBySubpath keeps, in
\* their order, exactly the entries whose path begins with prefix or equals
\* subpath; a kept path that begins with prefix loses it and a kept path
\* equal to subpath stays as it is. An empty subpath returns the list
\* unchanged, so scoping again with '' changes nothing.
C12_ScopesToSubpath ==
  call.fn = "filterBySubpath" =>
    LET sub == call.subpath
        pfx == IF sub # <<>> /\ sub[Len(sub)] = "/" THEN sub ELSE sub \o <<"/">>
        keep(f) == StartsWith(f.path, pfx) \/ f.path = sub
        rewrite(p) == IF StartsWith(p, pfx) THEN SliceFrom(p, Len(pfx)) ELSE p
    IN /\ sub = <<>> => call.result = call.files
       /\ sub # <<>> => call.result = KeepAndRewrite(call.files, keep, rewrite)
       /\ \A i \in 1..Len(call.result) : call.result[i].size \in { f.size : f \in Range(call.files) }
       /\ call.again = call.result

\* C12 witness: scoping to src kept the entries below src in their order,
\* cut their paths, and left out the root file and the file below srcs.
C12_Witness ==
  /\ call.fn = "filterBySubpath"
  /\ call.subpath = <<"s", "r", "c">>
  /\ [ i \in 1..Len(call.files) |-> call.files[i].path ]
       = << <<"s", "r", "c", "/", "c", "/", "B", "u", "t", "t", "o", "n", ".", "t", "s", "x">>, <<"R", "E", "A", "D", "M", "E", ".", "m", "d">>, <<"s", "r", "c", "/", "i", "n", "d", "e", "x", ".", "t", "s">> >>
  /\ [ i \in 1..Len(call.result) |-> call.result[i].path ]
       = << <<"c", "/", "B", "u", "t", "t", "o", "n", ".", "t", "s", "x">>, <<"i", "n", "d", "e", "x", ".", "t", "s">> >>
  /\ call.again = call.result

\* ------------------------------------------------ the paths of the result

\* The path is a relative, slash-separated path of a file: it is not empty,
\* neither begins nor ends with '/', and none of its segments is empty.
IsRelativeFilePath(p) ==
  /\ p # <<>>
  /\ p[1] # "/"
  /\ p[Len(p)] # "/"
  /\ \A s \in Range(Split(p, "/")) : s # <<>>

\* C13: every path of the files of a result is a non-empty relative
\* slash-separated path, and it is the path of the archive entry without
\* the archive's top-level directory segment and without the segments of the
\* subpath that was asked for.
C13_PathsAreRelativeAndStripped ==
  pc \in {"loop", "finish", "done"} =>
    /\ Len(files) = Len(admitted)
    /\ pc = "done" => result.files = files
    /\ \A k \in 1..Len(files) :
         LET zipSegments == Split(unzipped[admitted[k]].path, "/")
             top == Split(unzipped[1].path, "/")[1]
             scope == IF options.subpath = <<>> THEN <<>> ELSE Split(options.subpath, "/")
         IN /\ IsRelativeFilePath(files[k].path)
            /\ zipSegments = <<top>> \o scope \o Split(files[k].path, "/")

\* C13 witness: a file below the subpath was returned under the path it has
\* inside the subpath.
C13_Witness ==
  /\ pc = "done"
  /\ options.subpath = <<"s", "r", "c">>
  /\ \E k \in 1..Len(result.files) :
       /\ unzipped[admitted[k]].path = <<"r", "/", "s", "r", "c", "/", "b", ".", "t", "s">>
       /\ result.files[k].path = <<"b", ".", "t", "s">>

\* ------------------------------------------------- the streamed response

\* C14: at the full level the stream is the header chunk (metadata block
\* and tree), then one chunk per included file in the order of the result,
\* then the notice chunk exactly when the result is truncated, and only then
\* is it closed; the chunks written so far are always the first of these,
\* and once closed their concatenation is the text formatFull renders for
\* the same result, which is also the text put in the cache.
C14_StreamIsFormatFullInChunks ==
  stream.pc \in {"header", "files", "close", "closed", "failed"} =>
    LET blocks == [ k \in 1..Len(result.files) |-> formatFileBlock(result.files[k]) ]
        notice == IF result.truncated
                  THEN << <<"\n">> \o MessageText(result.truncationMessage) \o <<"\n">> >>
                  ELSE <<>>
        header == formatSummary(result) \o <<"\n", "#", "#", " ", "D", "i", "r", "e", "c", "t", "o", "r", "y", " ", "S", "t", "r", "u", "c", "t", "u", "r", "e", "\n", "\n">>
                    \o formatTree(result.files, <<>>) \o <<"\n", "#", "#", " ", "F", "i", "l", "e", " ", "C", "o", "n", "t", "e", "n", "t", "s", "\n", "\n">>
        whole == <<header>> \o blocks \o notice
    IN /\ IsPrefixOf(stream.chunks, whole)
       /\ stream.pc = "closed" =>
            /\ stream.chunks = whole
            /\ Len(stream.chunks) = 1 + Len(result.files) + (IF result.truncated THEN 1 ELSE 0)
            /\ Concat(stream.chunks) = formatFull(result)
            /\ Concat(stream.chunks) = stream.cached

\* C14 witness: a truncated result of two files was streamed as four chunks
\* and the stream was closed.
C14_Witness ==
  /\ stream.pc = "closed"
  /\ result.truncated
  /\ Len(result.files) = 2
  /\ Len(stream.chunks) = 4

\* C15: once the consumer has gone away no further chunk is written, neither
\* a block of a remaining file nor the notice, and the stream is not closed
\* as complete; the chunks written until then are whole ones: the header,
\* blocks of the first files in their order, the notice.
C15_CancellationStopsEmission ==
  stream.pc \in {"header", "files", "close", "closed", "failed"} =>
    LET blocks == [ k \in 1..Len(result.files) |-> formatFileBlock(result.files[k]) ]
        whole == <<StreamHeader(result)>> \o blocks
                   \o (IF HasNotice(result) THEN <<StreamNotice(result)>> ELSE <<>>)
    IN /\ stream.cancelledAt # -1 =>
            /\ Len(stream.chunks) = stream.cancelledAt
            /\ stream.pc # "closed"
       /\ stream.pc = "failed" => stream.cancelledAt # -1
       /\ IsPrefixOf(stream.chunks, whole)

\* C15 witness: the consumer went away after the header and the first of
\* three files; the write of the second file failed and two chunks are all
\* that was written of a truncated result.
C15_Witness ==
  /\ stream.pc = "failed"
  /\ stream.cancelledAt = 2
  /\ Len(stream.chunks) = 2
  /\ Len(result.files) = 3
  /\ result.truncated

\* The text of the response: what was sent at once, or what the chunks of
\* a closed stream add up to.
Rendered == IF stream.pc = "sent" THEN stream.body ELSE Concat(stream.chunks)

\* C16: when the result carries a truncation note and the level is
\* file-list or full, the rendered text ends with that note (followed at
\* most by the newline that ends the text).
C16_NoteEndsPerFileOutput ==
  (/\ stream.pc \in {"sent", "closed"}
   /\ result.truncationMessage.present
   /\ options.detail \in {"file-list", "full"}) =>
    \/ EndsWith(Rendered, MessageText(result.truncationMessage))
    \/ EndsWith(Rendered, MessageText(result.truncationMessage) \o <<"\n">>)

\* The part of C16 that the code keeps: at the full level the text, streamed
\* or rendered at once for the cache, ends with the note.
C16_NoteEndsFullOutput ==
  (/\ stream.pc \in {"sent", "closed"}
   /\ result.truncationMessage.present
   /\ options.detail = "full") =>
    /\ EndsWith(Rendered, MessageText(result.truncationMessage) \o <<"\n">>)
    /\ EndsWith(stream.cached, MessageText(result.truncationMessage) \o <<"\n">>)

\* The body of the section of a path in a text rendered at the full level:
\* the lines between the fence that follows the heading of the path and the
\* next line that is a closing fence.
ExtractBody(text, path) ==
  LET lines == Split(text, "\n")
      heading == <<"#", "#", "#", " ", "u0060">> \o path \o <<"u0060">>
      h == CHOOSE i \in 1..Len(lines) :
             lines[i] = heading /\ \A j \in 1..(i - 1) : lines[j] # heading
      closing == CHOOSE i \in (h + 3)..Len(lines) :
                   lines[i] = <<"u0060", "u0060", "u0060">> /\ \A j \in (h + 3)..(i - 1) : lines[j] # <<"u0060", "u0060", "u0060">>
  IN Join(SubSeq(lines, h + 3, closing - 1), "\n")

\* C17: in a text rendered at the full level, the fenced block of the
\* section of each included file is the body of that file.
C17_FencedBodiesRoundTrip ==
  (stream.pc = "closed" /\ options.detail = "full") =>
    \A k \in 1..Len(result.files) :
      ExtractBody(Rendered, result.files[k].path) = result.files[k].content[1]

\* The part of C17 that the code keeps: the round trip for every file whose
\* body has no line that is a closing fence.
C17_RoundTripWithoutFenceLines ==
  (stream.pc = "closed" /\ options.detail = "full") =>
    \A k \in 1..Len(result.files) :
      (\A l \in Range(Split(result.files[k].content[1], "\n")) : l # <<"u0060", "u0060", "u0060">>)
        => ExtractBody(Rendered, result.files[k].path) = result.files[k].content[1]

\* ------------------------------------------------ invocations side by side

\* C18: in every interleaving of the invocations, an invocation that has
\* finished holds the result and the text it produces when it runs alone on
\* its archive and options, the matcher it consulted is the one compiled
\* from its own archive, and invocations given the same archive and options
\* end with identical results and texts.
C18_InvocationsDoNotInterfere ==
  pc = "concurrent" =>
    /\ \A i \in 1..MaxInvocations :
         /\ inv[i].pc \in {"loop", "finish", "format", "done"} =>
              inv[i].matcher = RootMatcher(inv[i].unzipped, TopLevelPrefix(inv[i].unzipped))
         /\ inv[i].pc = "done" =>
              LET alone == RunAlone(Invocation(inv[i].unzipped, inv[i].options))
              IN /\ inv[i].result = alone.result
                 /\ inv[i].output = alone.output
    /\ \A i, j \in 1..MaxInvocations :
         (/\ inv[i].pc = "done" /\ inv[j].pc = "done"
          /\ inv[i].unzipped = inv[j].unzipped
          /\ inv[i].options = inv[j].options)
           => (inv[i].result = inv[j].result /\ inv[i].output = inv[j].output)

\* C18 witness: two invocations finished on different archives, one with a
\* .gitignore and one without; the file the .gitignore excludes is absent
\* from the first result and present in the second.
C18_Witness ==
  /\ pc = "concurrent"
  /\ inv[1].pc = "done" /\ inv[2].pc = "done"
  /\ inv[1].matcher.present /\ ~inv[2].matcher.present
  /\ Len(inv[1].result.files) = 1
  /\ inv[1].result.files[1].path = <<"a", ".", "t", "s">>
  /\ Len(inv[2].result.files) = 2
  /\ inv[2].result.files[1].path = <<"s", "r", "c", "/", "e", ".", "l", "o", "g">>

\* ------------------------------------------------------ parseRequest alone

\* The text needle occurs in the text s.
Contains(s, needle) ==
  \E i \in 1..(Len(s) - Len(needle) + 1) : SubSeq(s, i, i + Len(needle) - 1) = needle

\* What is wrong with a request, read off the request itself: its detail
\* token is not a level; it has neither form; its owner or its repository
\* segment is missing or blank.
BadDetail(r) ==
  \E i \in 1..Len(r.params) :
    /\ r.params[i].key = <<"d", "e", "t", "a", "i", "l">>
    /\ \A j \in 1..(i - 1) : r.params[j].key # <<"d", "e", "t", "a", "i", "l">>
    /\ r.params[i].value # <<>>
    /\ r.params[i].value \notin { <<"s", "u", "m", "m", "a", "r", "y">>, <<"s", "t", "r", "u", "c", "t", "u", "r", "e">>, <<"f", "i", "l", "e", "-", "l", "i", "s", "t">>, <<"f", "u", "l", "l">> }

IsIngestForm(r) == r.pathname = <<"/", "i", "n", "g", "e", "s", "t">>
IsGitHubForm(r) == StartsWith(r.pathname, <<"/", "h", "t", "t", "p", "s", ":", "/", "/", "g", "i", "t", "h", "u", "b", ".", "c", "o", "m", "/">>)

BlankOwnerOrRepo(r) ==
  LET repos == SelectSeq(r.params, LAMBDA p : p.key = <<"r", "e", "p", "o">>)
      named == IF IsIngestForm(r)
               THEN (IF repos = <<>> THEN <<>> ELSE Split(repos[1].value, "/"))
               ELSE Split(SliceFrom(r.pathname, Len(<<"/", "h", "t", "t", "p", "s", ":", "/", "/", "g", "i", "t", "h", "u", "b", ".", "c", "o", "m", "/">>)), "/")
  IN \/ Len(named) < 2
     \/ Trim(named[1]) = <<>>
     \/ Trim(named[2]) = <<>>

DetailParams == SelectSeq(call.request.params, LAMBDA p : p.key = <<"d", "e", "t", "a", "i", "l">>)

\* C20: in both forms the detail level of the descriptor is that of the
\* explicit detail parameter when there is one; otherwise that of the
\* recognized keyword given as a bare flag; otherwise full.
C20_BareFlagSetsDetail ==
  (call.fn = "parseRequest" /\ call.result.ok) =>
    LET ps == call.request.params
        flags == { ps[i].key : i \in { j \in 1..Len(ps) :
                     ps[j].bare /\ ps[j].key \in { <<"s", "u", "m", "m", "a", "r", "y">>, <<"s", "t", "r", "u", "c", "t", "u", "r", "e">>, <<"f", "i", "l", "e", "-", "l", "i", "s", "t">>, <<"f", "u", "l", "l">> } } }
    IN /\ (DetailParams # <<>> /\ DetailParams[1].value # <<>>)
            => call.result.detail = DetailParams[1].value
       /\ (DetailParams = <<>> /\ Cardinality(flags) = 1) => call.result.detail \in flags
       /\ (DetailParams = <<>> /\ flags = {}) => call.result.detail = <<"f", "u", "l", "l">>

\* The parts of C20 that the code keeps: an explicit detail parameter
\* decides the level, and the level is full when there is none.
C20_ExplicitDetailOrFull ==
  (call.fn = "parseRequest" /\ call.result.ok) =>
    call.result.detail = IF DetailParams # <<>> /\ DetailParams[1].value # <<>>
                         THEN DetailParams[1].value ELSE <<"f", "u", "l", "l">>

\* ------------------------------------------- parseRequest: ref and subpath

\* What follows "<owner>/<repo>/tree/" in the pathname of the URL-appended
\* form, as a sequence of one text, or the empty sequence when the pathname
\* does not go on with that marker after its owner and repository.
AfterTreeMarker(pathname, owner, repo) ==
  LET marker == <<"/", "h", "t", "t", "p", "s", ":", "/", "/", "g", "i", "t", "h", "u", "b", ".", "c", "o", "m", "/">> \o owner \o <<"/">> \o repo \o <<"/", "t", "r", "e", "e", "/">>
  IN IF StartsWith(pathname, marker) THEN << SliceFrom(pathname, Len(marker)) >> ELSE <<>>

C21_NoMarkerNoRef ==
  /\ call.fn = "parseRequest"
  /\ call.request.pathname = <<"/", "h", "t", "t", "p", "s", ":", "/", "/", "g", "i", "t", "h", "u", "b", ".", "c", "o", "m", "/", "o", "/", "r", "/", "b", "l", "o", "b", "/", "m", "a", "i", "n", "/", "s", "r", "c">>
  /\ call.request.params = << Param(<<"r", "e", "f">>, <<"m", "a", "i", "n">>) >>
  /\ call.result.ok
  /\ call.result.ref = <<>>
  /\ call.result.path = <<>>

\* ------------------------------------------------- the ingest_repo tool

\* C22: the ingest_repo tool called with the shorthand
\* owner/repo/tree/<ref>/<subpath> returns what it returns for the URL
\* https://github.com/owner/repo/tree/<ref>/<subpath>: the repository at
\* <ref>, scoped to <subpath>.
C22_ShorthandWithTreeIsScoped ==
  (/\ call.fn = "ingest_repo"
   /\ ~StartsWith(call.url, <<"h", "t", "t", "p">>)
   /\ Contains(call.url, <<"/", "t", "r", "e", "e", "/">>))
    => call.result = ingest_repo(<<"h", "t", "t", "p", "s", ":", "/", "/", "g", "i", "t", "h", "u", "b", ".", "c", "o", "m", "/">> \o call.url, call.detail, call.upstream)

\* The shorthand of a repository alone returns what its URL returns.
C22_ShorthandOfRepositoryAsUrl ==
  (call.fn = "ingest_repo" /\ call.url = <<"o", "/", "r">>)
    => call.result = ingest_repo(<<"h", "t", "t", "p", "s", ":", "/", "/", "g", "i", "t", "h", "u", "b", ".", "c", "o", "m", "/", "o", "/", "r">>, call.detail, call.upstream)

\* ------------------------------------------------- handleIngest: failures

\* A header of a response, as a sequence of at most one value.
HeaderOf(response, name) ==
  IF response.headers # <<>> /\ name \in DOMAIN response.headers
  THEN << response.headers[name] >> ELSE <<>>

\* The response is a JSON object with an error member.
IsJsonError(response) ==
  /\ HeaderOf(response, "Content-Type") = << <<"a", "p", "p", "l", "i", "c", "a", "t", "i", "o", "n", "/", "j", "s", "o", "n">> >>
  /\ StartsWith(response.body, <<"{">> \o <<"\"">> \o <<"e", "r", "r", "o", "r">> \o <<"\"">> \o <<":">> \o <<"\"">>)
  /\ EndsWith(response.body, <<"}">>)

\* C23: every request handleIngest has finished ended with a response, none
\* with an exception; the status is 400 for a request that does not parse,
\* 404 for a repository not found, 413 for an archive over the limit, 429
\* with a Retry-After header for a request turned away by the rate limiter,
\* 502 for an error of the GitHub API, 500 for any other failure (a failed
\* fetch, an archive that does not decode) and 200 when nothing failed; the
\* response of a failure is a JSON error.
C23_FailuresBecomeJsonErrors ==
  handler.pc = "done" =>
    LET status == handler.response.status
        failure == handler.failure
    IN /\ status \in {200, 400, 404, 413, 429, 500, 502}
       /\ (failure = "none") <=> (status = 200)
       /\ (failure = "ParseError") <=> (status = 400)
       /\ (failure = "RepoNotFoundError") <=> (status = 404)
       /\ (failure = "ZipTooLargeError") <=> (status = 413)
       /\ (failure = "RateLimited") <=> (status = 429)
       /\ (failure = "GitHubApiError") <=> (status = 502)
       /\ (failure \in {"TypeError", "Error"}) <=> (status = 500)
       /\ status # 200 => IsJsonError(handler.response)
       /\ status = 429 => HeaderOf(handler.response, "Retry-After") = << <<"6", "0">> >>

\* C23 witness: an archive that does not decode ended its request with the
\* JSON error of status 500.
C23_Witness ==
  /\ handler.pc = "done"
  /\ handler.failure = "Error"
  /\ handler.log[Len(handler.log)] = "decompressAndProcess"
  /\ handler.response.status = 500
  /\ IsJsonError(handler.response)

\* ---------------------------------------- handleIngest: the size check

\* The calls of the log that reach GitHub for the archive itself.
Downloaded == \E i \in 1..Len(handler.log) : handler.log[i] = "fetchZipball"
Decompressed == \E i \in 1..Len(handler.log) : handler.log[i] = "decompressAndProcess"

\* C24: an archive larger than MAX_ZIP_BYTES is neither downloaded nor
\* decompressed, and the request whose size check reached GitHub and was
\* answered ends with status 413; the download always comes after the size
\* check.
C24_OversizedArchiveIsRejected ==
  handler.pc # "idle" =>
    /\ Downloaded =>
         \E i, j \in 1..Len(handler.log) :
           i < j /\ handler.log[i] = "checkZipSize" /\ handler.log[j] = "fetchZipball"
    /\ handler.zipBytes > MaxZipBytes =>
         /\ ~Downloaded
         /\ ~Decompressed
         /\ (handler.pc = "done"
             /\ handler.failure \notin {"RepoNotFoundError", "GitHubApiError", "TypeError"})
              => handler.response.status = 413

\* The part of C24 the code keeps: the size check comes before the
\* download, and an archive whose size the response to HEAD states to be
\* over the limit is turned away with 413 and is not downloaded.
C24_StatedOversizeIsRejected ==
  handler.pc # "idle" =>
    /\ Downloaded =>
         \E i, j \in 1..Len(handler.log) :
           i < j /\ handler.log[i] = "checkZipSize" /\ handler.log[j] = "fetchZipball"
    /\ (handler.zipBytes > MaxZipBytes /\ handler.lengthStated) =>
         /\ ~Downloaded
         /\ ~Decompressed
         /\ (handler.pc = "done"
             /\ handler.failure \notin {"RepoNotFoundError", "GitHubApiError", "TypeError"})
              => handler.response.status = 413

\* An archive over the limit, whose size the response to HEAD did not
\* state, was downloaded and decompressed and answered with 200.
C24_UnstatedOversizeGoesThrough ==
  /\ handler.pc = "done"
  /\ handler.zipBytes > MaxZipBytes
  /\ ~handler.lengthStated
  /\ Downloaded /\ Decompressed
  /\ handler.response.status = 200

\* ------------------------------------------ handleIngest: the cache

\* The stored responses of what the request asks for: those of the keys
\* under which a response to the same owner, repo, ref, path and detail
\* was put.
StoredFor(h) ==
  { e \in cache.entries :
      \E p \in h.puts : p.key = e.key /\ p.asked = Asked(h.parsed) }

\* The calls of the log of a handler.
Called(h, name) == \E i \in 1..Len(h.log) : h.log[i] = name

\* C25: a request with no-cache=true that has finished made no cache
\* lookup, and its response, when it is a 200, was computed from a download
\* and carries X-Cache: MISS; the cache step of a request without the flag
\* returns the stored response of the same owner, repo, ref, path and
\* detail, when there is one, with X-Cache: HIT.
C25_NoCacheBypassesLookup ==
  [][ /\ (handler'.pc = "done" /\ handler'.parsed.ok /\ handler'.parsed.noCache) =>
           /\ ~Called(handler', "getCached")
           /\ handler'.response.status = 200 =>
                /\ Called(handler', "fetchZipball")
                /\ HeaderOf(handler'.response, "X-Cache") = << <<"M", "I", "S", "S">> >>
      /\ (handler.pc # "idle" /\ handler.parsed.ok /\ ~handler.parsed.noCache
          /\ Called(handler, "checkRateLimit") /\ ~Called(handler, "getCached")
          /\ handler.pc # "done"
          /\ StoredFor(handler) # {}) =>
           /\ handler'.pc = "done"
           /\ \E e \in StoredFor(handler) :
                /\ handler'.response.status = e.response.status
                /\ handler'.response.body = e.response.body
                /\ HeaderOf(handler'.response, "X-Cache") = << <<"H", "I", "T">> >>
    ]_vars

\* C25 witness: a request with no-cache=true was answered from a download
\* with X-Cache: MISS although a response to what it asks for is stored.
C25_Witness ==
  /\ handler.pc = "done"
  /\ handler.parsed.ok /\ handler.parsed.noCache
  /\ handler.served = 2
  /\ cache.entries # {}
  /\ \E p \in handler.puts : p.asked = Asked(handler.parsed) /\ p.key = handler.cacheKey
  /\ handler.response.status = 200
  /\ HeaderOf(handler.response, "X-Cache") = << <<"M", "I", "S", "S">> >>
  /\ Called(handler, "fetchZipball")
  /\ ~Called(handler, "getCached")

\* A request without the flag was answered with the stored response and
\* X-Cache: HIT.
C25_HitWitness ==
  /\ handler.pc = "done"
  /\ handler.parsed.ok /\ ~handler.parsed.noCache
  /\ handler.log = << "parseRequest", "checkRateLimit", "getCached" >>
  /\ handler.response.status = 200
  /\ HeaderOf(handler.response, "X-Cache") = << <<"H", "I", "T">> >>

\* ------------------------------------- handleIngest: the order of steps

\* The calls of handleIngest in the order of its steps.
StepOrder ==
  << "parseRequest", "checkRateLimit", "getCached", "resolveDefaultRef", "checkZipSize",
     "fetchZipball", "decompressAndProcess", "putCache" >>
Rank(name) == CHOOSE k \in 1..Len(StepOrder) : StepOrder[k] = name

\* C28: the calls handleIngest has made are in the order parse, rate-limit
\* check, cache lookup, default-reference resolution, size check, download,
\* processing, none made twice, the first two and the last three never
\* skipped by a request that gets past them; a request answered 400 called
\* nothing but the parser, one answered 429 nothing but the parser and the
\* rate limiter, and one answered from the cache nothing after the lookup.
C28_StepsInFixedOrder ==
  handler.pc # "idle" =>
    LET log == handler.log
    IN /\ \A i, j \in 1..Len(log) : i < j => Rank(log[i]) < Rank(log[j])
       /\ \A i \in 1..Len(log) :
            /\ i <= 2 => log[i] = StepOrder[i]
            /\ log[i] = "fetchZipball" => (i > 1 /\ log[i - 1] = "checkZipSize")
            /\ log[i] = "decompressAndProcess" => (i > 1 /\ log[i - 1] = "fetchZipball")
            /\ log[i] = "checkZipSize" =>
                 (i > 1 /\ log[i - 1] \in {"checkRateLimit", "getCached", "resolveDefaultRef"})
       /\ handler.pc = "done" =>
            /\ handler.response.status = 400 => log = << "parseRequest" >>
            /\ handler.response.status = 429 => log = << "parseRequest", "checkRateLimit" >>
            /\ HeaderOf(handler.response, "X-Cache") = << <<"H", "I", "T">> >>
                 => log = << "parseRequest", "checkRateLimit", "getCached" >>
            /\ (handler.response.status = 200
                /\ HeaderOf(handler.response, "X-Cache") = << <<"M", "I", "S", "S">> >>)
                 => /\ SubSeq(log, Len(log) - 3, Len(log))
                         = << "checkZipSize", "fetchZipball", "decompressAndProcess", "putCache" >>
                    /\ Called(handler, "resolveDefaultRef")
                         <=> (handler.parsed.ref = <<>> \/ handler.parsed.ref[1] = <<>>)
                    /\ Called(handler, "getCached") <=> ~handler.parsed.noCache

\* C28 witness: a request was turned away by the rate limiter with 429
\* after the parser and the limiter alone were called.
C28_Witness ==
  /\ handler.pc = "done"
  /\ handler.response.status = 429
  /\ handler.log = << "parseRequest", "checkRateLimit" >>

\* ------------------------------------------ handleIngest: what is cached

\* C29: the cache changes only when processing succeeded and the request is
\* answered 200, and then, the Cache API being available, the response is
\* stored under the key of the request, also for a request with
\* no-cache=true; every stored response has status 200; the keys of two
\* calls of putCache are equal when the requests asked for the same owner,
\* repo, ref, path and detail.
C29_OnlySuccessIsCached ==
  [][ /\ cache' # cache /\ ~(cache'.entries \subseteq cache.entries) =>
           /\ handler.pc = "process"
           /\ handler'.pc = "done"
           /\ handler'.failure = "none"
           /\ handler'.response.status = 200
      /\ (handler.pc = "process" /\ handler'.response.status = 200 /\ cache.available) =>
           \E e \in cache'.entries :
             /\ e.key = buildCacheKey(handler.parsed)
             /\ e.response.status = 200
             /\ e.response.body = formatOutput(
                  ProcessZip(handler.zipData, [decodable |-> TRUE], handler.parsed,
                             handler.ref[1], DetailOf(handler.parsed.detail)).result,
                  DetailOf(handler.parsed.detail))
      /\ \A e \in cache'.entries : e.response.status = 200
      /\ \A p, q \in handler'.puts : p.asked = q.asked => p.key = q.key
    ]_vars

\* C29 witness: the response to a request with no-cache=true is stored under
\* the key an earlier request without the flag was stored under.
C29_Witness ==
  /\ handler.pc = "done"
  /\ handler.served = 2
  /\ handler.parsed.ok /\ handler.parsed.noCache
  /\ handler.log[Len(handler.log)] = "putCache"
  /\ Cardinality(handler.puts) = 1
  /\ \E e \in cache.entries : e.key = handler.cacheKey /\ e.response.status = 200

\* --------------------------------------------- the root .gitignore alone

\* The rules of the root .gitignore of the archive, wherever its entry
\* sits, as a sequence of at most one list of rules.
RootRules ==
  LET at == { i \in 1..Len(unzipped) : unzipped[i].path = <<"r", "/", ".", "g", "i", "t", "i", "g", "n", "o", "r", "e">> }
  IN IF at = {} THEN <<>> ELSE << parseGitignore(unzipped[CHOOSE i \in at : TRUE].text) >>

\* The entry at position i is a file the static list, the root rules,
\* the subpath and the binary test let through.
LetThrough(i) ==
  LET p == SliceFrom(unzipped[i].path, Len(<<"r", "/">>))
  IN /\ p # <<>> /\ ~EndsWith(p, <<"/">>)
     /\ ~shouldIgnorePath(p)
     /\ ~(RootRules # <<>> /\ gitignoreMatcher(RootRules[1], p))
     /\ InSubpath(p, options.subpath)
     /\ ~isBinaryContent(unzipped[i])

\* C26: once the loop over the entries has begun, the matcher is the one
\* compiled from the root .gitignore of the archive, wherever that entry
\* sits, or none when the archive has no root .gitignore; and every entry
\* the loop has passed was admitted exactly when the static list, the root
\* rules, the subpath and the binary test let it through: the rules of a
\* .gitignore in a subdirectory exclude nothing.
C26_RootRulesApplyToEveryEntry ==
  (pc \notin {"prefix", "gitignore"} /\ unzipped # <<>>) =>
    /\ matcher.present <=> RootRules # <<>>
    /\ matcher.present => matcher.rules = RootRules[1]
    /\ \A i \in 1..Min({idx - 1, Len(unzipped)}) :
         (\E k \in 1..Len(admitted) : admitted[k] = i) <=> LetThrough(i)

\* C26 witness: the root .gitignore is the last entry of the archive, and
\* the log file enumerated first was excluded by its rule.
C26_Witness ==
  /\ pc = "done"
  /\ Len(unzipped) = 3
  /\ unzipped[1].path = <<"r", "/", "s", "r", "c", "/", "e", ".", "l", "o", "g">>
  /\ unzipped[2].path = <<"r", "/", "a", ".", "t", "s">>
  /\ unzipped[3].path = <<"r", "/", ".", "g", "i", "t", "i", "g", "n", "o", "r", "e">>
  /\ options.detail = "summary" /\ options.subpath = <<>> /\ options.maxFileCount = 2
  /\ admitted = << 2, 3 >>

\* The rule of a .gitignore in a subdirectory names a source file beside
\* it, and the file was admitted.
C26_NestedRulesNotApplied ==
  /\ pc = "done"
  /\ Len(unzipped) = 2
  /\ unzipped[1].path = <<"r", "/", "s", "r", "c", "/", ".", "g", "i", "t", "i", "g", "n", "o", "r", "e">>
  /\ unzipped[2].path = <<"r", "/", "s", "r", "c", "/", "b", ".", "t", "s">>
  /\ options.detail = "summary" /\ options.maxFileCount = 2
  /\ admitted = << 1, 2 >>

\* ------------------------------ subpath scoping: the loop and the function

\* The paths of a list of files, in their order.
PathsOf(fs) == [ i \in 1..Len(fs) |-> fs[i].path ]

\* The same archive processed with the same options and no subpath.
WithoutSubpath == RunAlone(Invocation(unzipped, [options EXCEPT !.subpath = <<>>])).result

\* C27: when neither ceiling is reached, the files decompressAndProcess
\* returns for a subpath have the paths, in the order, that filterBySubpath
\* yields for that subpath on the files of the same archive processed
\* without a subpath.
C27_ScopingAgreesWithFilterBySubpath ==
  (pc = "done" /\ ~result.truncated /\ ~WithoutSubpath.truncated) =>
    PathsOf(result.files) = PathsOf(filterBySubpath(WithoutSubpath.files, options.subpath))

\* The part of C27 the code keeps: the two agree when no file of the
\* archive has the subpath itself as its path.
C27_AgreesUnlessAFileIsTheSubpath ==
  (/\ pc = "done" /\ ~result.truncated /\ ~WithoutSubpath.truncated
   /\ \A i \in 1..Len(unzipped) : unzipped[i].path # <<"r", "/">> \o options.subpath) =>
    PathsOf(result.files) = PathsOf(filterBySubpath(WithoutSubpath.files, options.subpath))

\* Scoped to src, the loop and filterBySubpath yield the same two paths.
C27_AgreeOnDirectory ==
  /\ pc = "done"
  /\ options.subpath = <<"s", "r", "c">>
  /\ PathsOf(result.files) = << <<"b", ".", "t", "s">>, <<".", "g", "i", "t", "i", "g", "n", "o", "r", "e">> >>
  /\ PathsOf(filterBySubpath(WithoutSubpath.files, options.subpath)) = PathsOf(result.files)

\* The subpath names a file: the loop returns nothing and filterBySubpath
\* the file.
C27_FileAsSubpath ==
  /\ pc = "done"
  /\ options.subpath = <<"a", ".", "t", "s">>
  /\ ~result.truncated
  /\ result.files = <<>>
  /\ PathsOf(filterBySubpath(WithoutSubpath.files, options.subpath)) = << <<"a", ".", "t", "s">> >>

\* ------------------------------------------ the detail level and the files

\* The files of the same archive, subpath and ceilings at another level.
FilesAt(detail) == RunAlone(Invocation(unzipped, [options EXCEPT !.detail = detail])).result.files

\* The paths and sizes of a list of files, in their order.
PathsAndSizes(fs) == [ i \in 1..Len(fs) |-> [path |-> fs[i].path, size |-> fs[i].size] ]

\* C30: for the archive, subpath and ceilings of a finished call, the files
\* admitted at the level full are a prefix, by paths and sizes, of those
\* admitted at any other level; the files admitted at summary, structure and
\* file-list have the same paths and sizes in the same order; lines are
\* attached at file-list and full only and content at full only.
C30_DetailChangesOnlyAttachments ==
  pc = "done" =>
    LET atFull == PathsAndSizes(FilesAt("full"))
        atSummary == PathsAndSizes(FilesAt("summary"))
    IN /\ PathsAndSizes(result.files) = PathsAndSizes(FilesAt(options.detail))
       /\ IsPrefixOf(atFull, atSummary)
       /\ PathsAndSizes(FilesAt("structure")) = atSummary
       /\ PathsAndSizes(FilesAt("file-list")) = atSummary
       /\ options.detail # "full" => PathsAndSizes(result.files) = atSummary
       /\ \A i \in 1..Len(result.files) :
            /\ result.files[i].lines # <<>> <=> options.detail \in {"file-list", "full"}
            /\ result.files[i].content # <<>> <=> options.detail = "full"

\* C30 witness: at the level full the byte ceiling cut the list short, and
\* the same call at summary admits a longer list that starts with it.
C30_Witness ==
  /\ pc = "done"
  /\ options.detail = "full"
  /\ result.truncated
  /\ Len(result.files) = 1
  /\ Len(FilesAt("summary")) = 2
  /\ PathsAndSizes(result.files) = SubSeq(PathsAndSizes(FilesAt("summary")), 1, 1)
====
